---- MODULE Spec2Model ----
(***************************************************************************)
(* Issue document store of security-copilot-starter.                       *)
(*                                                                         *)
(* Two revisions of server/index.js are in the repository:                 *)
(*   "sync"  : the readFileSync/writeFileSync server with seeding and      *)
(*             POST/PUT/DELETE /api/issues   (src/unnamed/part_000)        *)
(*   "async" : the fs/promises server with deleteByTitle / editByTitle     *)
(*             (src/server/index.js, lines 195-396)                        *)
(* impl says which revision serves the store of a behaviour.               *)
(*                                                                         *)
(* Besides the store, the module holds the client (flattening, severity    *)
(* buckets and the dialogs of Settings.tsx), the requests in flight on the *)
(* async server and the /api/scrape route, each with a specification of    *)
(* its own.                                                                *)
(*                                                                         *)
(* Strings are sequences of atoms (a letter, a blank, or a whole word);    *)
(* numbers are integers in hundredths (0.95 is 95).                        *)
(***************************************************************************)
EXTENDS Integers, Sequences, FiniteSets, TLC

VARIABLES impl, store, seed, last, hist, scn,   \* the issue server
          body, nget,                           \* the last GET /api/issues
          ui,                                   \* the views of the client
          race,                                 \* requests in flight on the async server
          net                                   \* a /api/scrape request

vars == <<impl, store, seed, last, hist, scn, body, nget, ui, race, net>>

(* ------------------------------ bounds --------------------------------- *)

\* Create requests are issued while the loaded document holds fewer templates.
MaxTemplates == 2

\* GET /api/issues is repeated at most this many times in a row.
MaxGets == 2

\* The documents that are flattened hold at most this many templates.
MaxListed == 3

\* The views that bucket severity scores list at most this many issues.
MaxScored == 2

\* The async server has at most this many requests in flight.
MaxInFlight == 2

\* A scrape request carries at most this many URLs.
MaxUrls == 2
MaxRuns == 2

(* --------------------------- JavaScript values -------------------------- *)

JsVal(t, s, n, a) == [t |-> t, s |-> s, n |-> n, a |-> a]

Undef    == JsVal("undefined", <<>>, 0, <<>>)
Null     == JsVal("null", <<>>, 0, <<>>)
NaN      == JsVal("nan", <<>>, 0, <<>>)
Str(s)   == JsVal("string", s, 0, <<>>)
Num(n)   == JsVal("number", <<>>, n, <<>>)
Arr(a)   == JsVal("array", <<>>, 0, a)

\* v != null
NotNullish(v) == v.t \notin {"undefined", "null"}

\* JavaScript truthiness (!!v)
Truthy(v) ==
  CASE v.t = "string" -> v.s # <<>>
    [] v.t = "number" -> v.n # 0
    [] v.t = "array"  -> TRUE
    [] OTHER          -> FALSE

\* a === b for a primitive b (arrays are compared by reference, NaN never equals)
StrictEq(a, b) ==
  CASE a.t = "string" /\ b.t = "string" -> a.s = b.s
    [] a.t = "number" /\ b.t = "number" -> a.n = b.n
    [] a.t = "null" /\ b.t = "null" -> TRUE
    [] a.t = "undefined" /\ b.t = "undefined" -> TRUE
    [] OTHER -> FALSE

IsWs(c) == c = " "

RECURSIVE TrimStart(_)
TrimStart(s) ==
  IF s = <<>> THEN <<>>
  ELSE IF IsWs(Head(s)) THEN TrimStart(Tail(s)) ELSE s

RECURSIVE TrimEnd(_)
TrimEnd(s) ==
  IF s = <<>> THEN <<>>
  ELSE IF IsWs(s[Len(s)]) THEN TrimEnd(SubSeq(s, 1, Len(s) - 1)) ELSE s

\* String.prototype.trim
Trim(s) == TrimEnd(TrimStart(s))

\* decimal literals the requests use, in hundredths
NumLit == [x \in {"0", "0.5", "0.95", "5"} |->
             CASE x = "0" -> 0 [] x = "0.5" -> 50 [] x = "0.95" -> 95 [] x = "5" -> 500]

NumText(n) ==
  CASE n = 0 -> "0" [] n = 50 -> "0.5" [] n = 95 -> "0.95" [] n = 500 -> "5"
    [] OTHER -> "number"

RECURSIVE JoinComma(_)
JoinComma(a) ==
  IF a = <<>> THEN <<>>
  ELSE IF Len(a) = 1 THEN a[1]
  ELSE a[1] \o <<",">> \o JoinComma(Tail(a))

\* String(v)
ToStr(v) ==
  CASE v.t = "string"    -> v.s
    [] v.t = "number"    -> <<NumText(v.n)>>
    [] v.t = "nan"       -> <<"NaN">>
    [] v.t = "null"      -> <<"null">>
    [] v.t = "undefined" -> <<"undefined">>
    [] v.t = "array"     -> JoinComma(v.a)

\* Number("...") on a string
StrToNumber(s) ==
  LET t == Trim(s) IN
    IF t = <<>> THEN Num(0)
    ELSE IF Len(t) = 1 /\ t[1] \in DOMAIN NumLit THEN Num(NumLit[t[1]])
    ELSE NaN

\* Number(v)
ToNumber(v) ==
  CASE v.t = "number"    -> v
    [] v.t = "nan"       -> NaN
    [] v.t = "string"    -> StrToNumber(v.s)
    [] v.t = "null"      -> Num(0)
    [] v.t = "undefined" -> NaN
    [] v.t = "array"     -> StrToNumber(JoinComma(v.a))

(* ------------------------------ documents ------------------------------- *)

SemTemplate(h, c, sev, d, r, i) ==
  [sem_header |-> h, sem_category |-> c, severity_score |-> sev,
   sem_long_description |-> d, sem_recommendations |-> r,
   sem_resolution_instruction |-> i]

\* "no template" in a response
NoTemplate == SemTemplate(Undef, Undef, Undef, Undef, Undef, Undef)

SubSection(t, fts) == [title |-> t, finding_templates |-> fts]
Section(t, subs)   == [title |-> t, sub_sections |-> subs]

\* a file: absent, not JSON, JSON null, an object without sections, an object
\* whose sections is a non-array object, or a document
Blob(k, secs) == [kind |-> k, sections |-> secs]
DocBlob(secs) == Blob("doc", secs)

DefaultSectionTitle    == <<"Default", " ", "Section">>
DefaultSubsectionTitle == <<"Default", " ", "Subsection">>
DefaultCategory        == <<"Configuration", " ", "Changes">>

\* every <<i, j, k>> of a template, and the document order on them
Positions(doc) ==
  UNION {UNION {{<<i, j, k>> : k \in 1..Len(doc[i].sub_sections[j].finding_templates)} :
                  j \in 1..Len(doc[i].sub_sections)} :
           i \in 1..Len(doc)}

PosLess(p, q) ==
  \/ p[1] < q[1]
  \/ p[1] = q[1] /\ p[2] < q[2]
  \/ p[1] = q[1] /\ p[2] = q[2] /\ p[3] < q[3]

TemplateAt(doc, p) == doc[p[1]].sub_sections[p[2]].finding_templates[p[3]]

CountTemplates(doc) == Cardinality(Positions(doc))

RECURSIVE FilterSeq(_, _)
\* Array.prototype.filter with the test "sem_header !== id"
FilterSeq(fts, id) ==
  IF fts = <<>> THEN <<>>
  ELSE IF StrictEq(Head(fts).sem_header, Str(id)) THEN FilterSeq(Tail(fts), id)
  ELSE <<Head(fts)>> \o FilterSeq(Tail(fts), id)

FirstPos(ps) == CHOOSE p \in ps : \A q \in ps : q = p \/ PosLess(p, q)

ReplaceAt(doc, p, t) ==
  [doc EXCEPT ![p[1]].sub_sections[p[2]].finding_templates[p[3]] = t]

\* JSON.stringify writes NaN as null
JsonVal(v) == IF v.t = "nan" THEN Null ELSE v

JsonTemplate(t) ==
  SemTemplate(JsonVal(t.sem_header), JsonVal(t.sem_category), JsonVal(t.severity_score),
              JsonVal(t.sem_long_description), JsonVal(t.sem_recommendations),
              JsonVal(t.sem_resolution_instruction))

JsonDoc(doc) ==
  [i \in 1..Len(doc) |->
     [doc[i] EXCEPT !.sub_sections =
        [j \in 1..Len(doc[i].sub_sections) |->
           [doc[i].sub_sections[j] EXCEPT !.finding_templates =
              [k \in 1..Len(doc[i].sub_sections[j].finding_templates) |->
                 JsonTemplate(doc[i].sub_sections[j].finding_templates[k])]]]]]

\* writeJson: the file becomes the serialised document
WriteJson(doc) == DocBlob(JsonDoc(doc))

(* ------------------- sync server (src/unnamed/part_000) ----------------- *)

\* variant: the seed is returned but not written to the data file
SeedIfEmptyNoWrite(obj, st, sd) ==
  LET empty == obj.kind # "doc" \/ Len(obj.sections) = 0 IN
    IF ~empty THEN [doc |-> obj.sections, store |-> st]
    ELSE IF sd.kind = "doc" /\ Len(sd.sections) > 0
         THEN [doc |-> sd.sections, store |-> st]
         ELSE [doc |-> <<>>, store |-> st]

\* variant: the seed is written but the empty document is returned
SeedIfEmptyReturnsEmpty(obj, st, sd) ==
  LET empty == obj.kind # "doc" \/ Len(obj.sections) = 0 IN
    IF ~empty THEN [doc |-> obj.sections, store |-> st]
    ELSE IF sd.kind = "doc" /\ Len(sd.sections) > 0
         THEN [doc |-> <<>>, store |-> WriteJson(sd.sections)]
         ELSE [doc |-> <<>>, store |-> st]

SeedIfEmpty(obj, st, sd) ==
  LET empty == obj.kind # "doc" \/ Len(obj.sections) = 0 IN
    IF ~empty THEN [doc |-> obj.sections, store |-> st]
    ELSE IF sd.kind = "doc" /\ Len(sd.sections) > 0
         THEN [doc |-> sd.sections, store |-> WriteJson(sd.sections)]
         ELSE [doc |-> <<>>, store |-> st]

\* readJson(): the document the handler works on and the data file afterwards
ReadJsonA(st, sd) ==
  IF st.kind = "absent" THEN SeedIfEmpty(DocBlob(<<>>), st, sd)
  ELSE IF st.kind = "corrupt" THEN SeedIfEmpty(DocBlob(<<>>), st, sd)
  ELSE SeedIfEmpty(st, st, sd)

\* "Ensure base structure"
EnsureContainers(doc) ==
  LET d1 == IF Len(doc) = 0
            THEN <<Section(DefaultSectionTitle, <<>>)>>
            ELSE doc
  IN IF Len(d1[1].sub_sections) = 0
     THEN [d1 EXCEPT ![1].sub_sections = <<SubSection(DefaultSubsectionTitle, <<>>)>>]
     ELSE d1

\* the "Unique by sem_header" test of POST
HeaderExists(data, h) ==
  LET fts == data[1].sub_sections[1].finding_templates IN
    \E k \in 1..Len(fts) : StrictEq(fts[k].sem_header, h)

\* Array.isArray(x) ? x : x ? [x] : []     (scalars are strings here)
InstructionArray(v) ==
  IF v.t = "array" THEN v
  ELSE IF Truthy(v) THEN Arr(<<ToStr(v)>>)
  ELSE Arr(<<>>)

BuildTemplate(p) ==
  SemTemplate(
    Str(Trim(ToStr(p.sem_header))),
    IF Truthy(p.sem_category) THEN p.sem_category ELSE Str(DefaultCategory),
    IF p.severity_score.t = "number" THEN p.severity_score
    ELSE ToNumber(IF Truthy(p.severity_score) THEN p.severity_score ELSE Num(0)),
    IF Truthy(p.sem_long_description) THEN p.sem_long_description ELSE Str(<<>>),
    IF p.sem_recommendations.t = "array" THEN p.sem_recommendations ELSE Arr(<<>>),
    InstructionArray(p.sem_resolution_instruction))

\* variant: unshift instead of push
PushTemplateFront(data, t) ==
  [data EXCEPT ![1].sub_sections[1].finding_templates = <<t>> \o @]

PushTemplate(data, t) ==
  [data EXCEPT ![1].sub_sections[1].finding_templates = Append(@, t)]

Response(status, st, ret) == [status |-> status, store |-> st, ret |-> ret]

\* variant: the base structure is built and saved before the title is validated
CreateASavesFirst(p, st, sd) ==
  LET L    == ReadJsonA(st, sd)
      data == EnsureContainers(L.doc)
  IN IF ~Truthy(p.sem_header) \/ p.sem_header.t # "string"
     THEN Response(400, WriteJson(data), NoTemplate)
     ELSE IF HeaderExists(data, p.sem_header)
          THEN Response(409, WriteJson(data), NoTemplate)
          ELSE LET t == BuildTemplate(p) IN
                 Response(201, WriteJson(PushTemplate(data, t)), JsonTemplate(t))

\* app.post('/api/issues')
CreateA(p, st, sd) ==
  IF ~Truthy(p.sem_header) \/ p.sem_header.t # "string"
  THEN Response(400, st, NoTemplate)
  ELSE LET L    == ReadJsonA(st, sd)
           data == EnsureContainers(L.doc)
       IN IF HeaderExists(data, p.sem_header)
          THEN Response(409, L.store, NoTemplate)
          ELSE LET t == BuildTemplate(p) IN
                 Response(201, WriteJson(PushTemplate(data, t)), JsonTemplate(t))

ApplyPatchA(t, p) ==
  SemTemplate(
    IF NotNullish(p.sem_header) THEN Str(ToStr(p.sem_header)) ELSE t.sem_header,
    IF NotNullish(p.sem_category) THEN Str(ToStr(p.sem_category)) ELSE t.sem_category,
    IF NotNullish(p.severity_score) THEN ToNumber(p.severity_score) ELSE t.severity_score,
    IF NotNullish(p.sem_long_description)
      THEN Str(ToStr(p.sem_long_description)) ELSE t.sem_long_description,
    IF NotNullish(p.sem_recommendations)
      THEN (IF p.sem_recommendations.t = "array" THEN p.sem_recommendations ELSE Arr(<<>>))
      ELSE t.sem_recommendations,
    IF NotNullish(p.sem_resolution_instruction)
      THEN InstructionArray(p.sem_resolution_instruction)
      ELSE t.sem_resolution_instruction)

Matches(doc, id) ==
  {q \in Positions(doc) : StrictEq(TemplateAt(doc, q).sem_header, Str(id))}

\* app.put('/api/issues/:id')
UpdateA(id, p, st, sd) ==
  LET L == ReadJsonA(st, sd)
      m == Matches(L.doc, id)
  IN IF m = {} THEN Response(404, L.store, NoTemplate)
     ELSE LET q == FirstPos(m)
              t == ApplyPatchA(TemplateAt(L.doc, q), p)
          IN Response(200, WriteJson(ReplaceAt(L.doc, q, t)), JsonTemplate(t))

\* the sub-sections <<i, j>> in which the filter of DELETE removes something
SubsWith(doc, id) == {<<q[1], q[2], 0>> : q \in Matches(doc, id)}

\* app.delete('/api/issues/:id')
DeleteA(id, st, sd) ==
  LET L == ReadJsonA(st, sd)
      m == SubsWith(L.doc, id)
  IN IF m = {} THEN Response(404, L.store, NoTemplate)
     ELSE LET q == FirstPos(m)
              d == [L.doc EXCEPT ![q[1]].sub_sections[q[2]].finding_templates =
                                    FilterSeq(@, id)]
          IN Response(200, WriteJson(d), NoTemplate)

(* -------------- async server (src/server/index.js, 195-313) ------------- *)

\* readJson(p) throws when the file is missing, is not JSON, or was opened
\* for writing and is still empty
ReadThrowsB(st) == st.kind \in {"absent", "corrupt", "truncated"}

\* sub_sections.filter(ss => ss.finding_templates.length > 0)
RECURSIVE PruneSubs(_)
PruneSubs(subs) ==
  IF subs = <<>> THEN <<>>
  ELSE IF Len(Head(subs).finding_templates) > 0
       THEN <<Head(subs)>> \o PruneSubs(Tail(subs))
       ELSE PruneSubs(Tail(subs))

\* sections.map(...).filter(s => s.sub_sections.length > 0)
RECURSIVE PruneSections(_)
PruneSections(doc) ==
  IF doc = <<>> THEN <<>>
  ELSE LET s == [Head(doc) EXCEPT !.sub_sections = PruneSubs(@)] IN
         IF Len(s.sub_sections) > 0
         THEN <<s>> \o PruneSections(Tail(doc))
         ELSE PruneSections(Tail(doc))

FilterAll(doc, title) ==
  [i \in 1..Len(doc) |->
     [doc[i] EXCEPT !.sub_sections =
        [j \in 1..Len(doc[i].sub_sections) |->
           [doc[i].sub_sections[j] EXCEPT !.finding_templates = FilterSeq(@, title)]]]]

\* deleteByTitle(root, title): removed, and root.sections afterwards
DeleteByTitle(doc, title) ==
  [removed |-> Matches(doc, title) # {},
   doc     |-> PruneSections(FilterAll(doc, title))]

ApplyPatchB(t, p) ==
  SemTemplate(
    IF p.sem_header.t = "string" /\ Trim(p.sem_header.s) # <<>>
      THEN Str(Trim(p.sem_header.s)) ELSE t.sem_header,
    IF p.sem_category.t = "string" THEN p.sem_category ELSE t.sem_category,
    IF p.severity_score.t # "undefined" THEN ToNumber(p.severity_score) ELSE t.severity_score,
    IF p.sem_long_description.t = "string"
      THEN p.sem_long_description ELSE t.sem_long_description,
    IF p.sem_recommendations.t = "array" THEN p.sem_recommendations ELSE t.sem_recommendations,
    IF p.sem_resolution_instruction.t \in {"array", "string"}
      THEN p.sem_resolution_instruction ELSE t.sem_resolution_instruction)

\* editByTitle(root, title, patch): found, and root.sections afterwards
EditByTitle(doc, title, p) ==
  LET m == Matches(doc, title) IN
    IF m = {} THEN [found |-> FALSE, doc |-> doc]
    ELSE LET q == FirstPos(m) IN
           [found |-> TRUE, doc |-> ReplaceAt(doc, q, ApplyPatchB(TemplateAt(doc, q), p))]

\* variant: the result of deleteByTitle is not tested before the write
DeleteBAlwaysWrites(id, st) ==
  IF ReadThrowsB(st) THEN Response(500, st, NoTemplate)
  ELSE IF st.kind \in {"null", "nosections"} THEN Response(404, st, NoTemplate)
  ELSE IF st.kind = "badsections" THEN Response(500, st, NoTemplate)
  ELSE Response(200, WriteJson(DeleteByTitle(st.sections, id).doc), NoTemplate)

\* app.delete('/api/issues/:id')
DeleteB(id, st) ==
  IF ReadThrowsB(st) THEN Response(500, st, NoTemplate)
  ELSE IF st.kind \in {"null", "nosections"} THEN Response(404, st, NoTemplate)
  ELSE IF st.kind = "badsections" THEN Response(500, st, NoTemplate)
  ELSE LET r == DeleteByTitle(st.sections, id) IN
         IF ~r.removed THEN Response(404, st, NoTemplate)
         ELSE Response(200, WriteJson(r.doc), NoTemplate)

\* app.put('/api/issues/:id')
UpdateB(id, p, st) ==
  IF ReadThrowsB(st) THEN Response(500, st, NoTemplate)
  ELSE IF st.kind \in {"null", "nosections"} THEN Response(404, st, NoTemplate)
  ELSE IF st.kind = "badsections" THEN Response(500, st, NoTemplate)
  ELSE LET r == EditByTitle(st.sections, id, p) IN
         IF ~r.found THEN Response(404, st, NoTemplate)
         ELSE Response(200, WriteJson(r.doc), NoTemplate)

(* ------------------------ flattening (Settings.tsx) --------------------- *)

RECURSIVE PosSeq(_)
\* the positions of a set in document order
PosSeq(ps) ==
  IF ps = {} THEN <<>>
  ELSE LET q == FirstPos(ps) IN <<q>> \o PosSeq(ps \ {q})

RECURSIVE FlattenFrom(_, _, _)
\* the loop of refreshFromServer: skip a falsy or already seen name
FlattenFrom(doc, qs, seen) ==
  IF qs = <<>> THEN <<>>
  ELSE LET name == TemplateAt(doc, Head(qs)).sem_header IN
         IF ~Truthy(name) \/ name \in seen
         THEN FlattenFrom(doc, Tail(qs), seen)
         ELSE <<[id |-> name, name |-> name]>>
                \o FlattenFrom(doc, Tail(qs), seen \cup {name})

\* the id and name of the issues refreshFromServer lists for a document
Flatten(doc) == FlattenFrom(doc, PosSeq(Positions(doc)), {})

(* ------------------------------- requests ------------------------------- *)

StrA  == <<"a">>
StrB  == <<"b">>
StrC  == <<"c">>
StrWA == <<" ", "a">>
StrWB == <<" ", "b">>

\* a template as a data file holds it before any request
OldTemplate(h) ==
  SemTemplate(Str(h), Str(<<"Network">>), Num(50), Str(<<"d">>),
              Arr(<< <<"r">> >>), Arr(<< <<"u">> >>))

DocOne == <<Section(<<"S1">>, <<SubSection(<<"SS1">>, <<OldTemplate(StrA)>>)>>)>>

\* the first sub-section was emptied, the second section holds "a"
DocTwo ==
  <<Section(<<"S1">>, <<SubSection(<<"SS1">>, <<>>)>>),
    Section(<<"S2">>, <<SubSection(<<"SS2">>, <<OldTemplate(StrA)>>)>>)>>

DocNoSub == <<Section(<<"S1">>, <<>>)>>

InitDocs == {<<>>, DocOne, DocTwo, DocNoSub}

StoreInputs ==
  {Blob(k, <<>>) : k \in {"absent", "corrupt", "null", "nosections", "badsections"}}
    \cup {DocBlob(d) : d \in InitDocs}

SeedInputs == {Blob("absent", <<>>), DocBlob(<<>>), DocBlob(DocOne)}

\* a request body with only sem_header
HeaderOnly(h) == SemTemplate(h, Undef, Undef, Undef, Undef, Undef)

CreatePayloads ==
  {HeaderOnly(h) : h \in {Undef, Num(500), Str(<<>>), Str(<<" ">>),
                          Str(StrA), Str(StrWA), Str(StrB)}}

HeaderPatches ==
  {HeaderOnly(h) : h \in {Undef, Null, Str(<<>>), Str(StrA), Str(StrB), Str(StrWB)}}

\* the :id path segments requests carry (a route segment is never empty)
Ids == {StrA, StrB, StrWB, StrC}

NoRequest ==
  [op |-> "none", status |-> 0, id |-> <<>>, p |-> NoTemplate, ret |-> NoTemplate]

Request(op, id, p, r) ==
  [op |-> op, status |-> r.status, id |-> id, p |-> p, ret |-> r.ret]

AllHeaders(doc) == {TemplateAt(doc, q).sem_header : q \in Positions(doc)}

\* the document a handler of the serving revision works on
Loaded(st, sd, im) ==
  IF im = "sync" THEN ReadJsonA(st, sd).doc
  ELSE IF st.kind = "doc" THEN st.sections ELSE <<>>

\* history for the create-only runs that start from an empty store
HistNext(h, op, p, r) ==
  IF op = "create" /\ r.status = 201
    THEN [h EXCEPT !.headers = IF h.fromEmpty THEN Append(@, p.sem_header.s) ELSE @]
  ELSE IF r.status = 200
    THEN [fromEmpty |-> FALSE, headers |-> <<>>]
  ELSE h

NoScenario == [stage |-> "none", a |-> <<>>, b |-> <<>>]

\* history for "create A, then rename A to B"
ScnNext(s, op, id, p, r, before) ==
  IF op = "create" /\ r.status = 201
    THEN [stage |-> "created", a |-> p.sem_header.s, b |-> <<>>]
  ELSE IF /\ op = "update" /\ r.status = 200
          /\ s.stage = "created" /\ id = s.a
          /\ p.sem_header.t = "string" /\ p.sem_header.s \notin {s.a, <<>>}
          /\ p.sem_header \notin AllHeaders(before)
    THEN [stage |-> "renamed", a |-> s.a, b |-> p.sem_header.s]
  ELSE NoScenario

\* no body: the request was not a GET, or the GET failed
NoBody == Blob("none", <<>>)

\* the client, the requests in flight and the scraper when they are not modelled
UiIdle   == [view |-> "none", issues |-> <<>>]
RaceIdle == <<>>
NetIdle  == [phase |-> "idle"]

Idle ==
  /\ body = NoBody
  /\ nget = 0
  /\ ui = UiIdle
  /\ race = RaceIdle
  /\ net = NetIdle

Step(op, id, p, r) ==
  /\ store' = r.store
  /\ last' = Request(op, id, p, r)
  /\ hist' = HistNext(hist, op, p, r)
  /\ scn' = ScnNext(scn, op, id, p, r, Loaded(store, seed, impl))
  /\ body' = NoBody
  /\ nget' = 0
  /\ UNCHANGED <<impl, seed, ui, race, net>>

\* app.get('/api/issues') of the sync server: readJson, then res.json(data)
GetA(st, sd) ==
  LET L == ReadJsonA(st, sd) IN
    [status |-> 200, store |-> L.store, body |-> DocBlob(L.doc)]

\* app.get('/api/issues') of the async server: the parsed file as it is, or 500
GetB(st) ==
  IF ReadThrowsB(st) THEN [status |-> 500, store |-> st, body |-> NoBody]
  ELSE [status |-> 200, store |-> st, body |-> st]

GetStep(r) ==
  /\ nget < MaxGets
  /\ store' = r.store
  /\ body' = r.body
  /\ nget' = nget + 1
  /\ last' = [op |-> "get", status |-> r.status, id |-> <<>>, p |-> NoTemplate,
              ret |-> NoTemplate]
  /\ hist' = hist
  /\ scn' = NoScenario
  /\ UNCHANGED <<impl, seed, ui, race, net>>

\* the bodies with the non-header fields of a request
FieldsGiven ==
  SemTemplate(Undef, Str(<<"Email">>), Num(95), Str(<<"e">>),
              Arr(<< <<"r1">>, <<"r2">> >>), Arr(<< <<"v">> >>))

FieldsScalar ==
  SemTemplate(Undef, Str(<<>>), Str(<<"0.5">>), Str(<<>>), Str(<<"r1">>), Str(<<"v">>))

\* header absent: all fields given; scalars; one field; an explicit null;
\* header given with two explicit nulls
FieldPatches ==
  {FieldsGiven, FieldsScalar,
   [NoTemplate EXCEPT !.sem_category = Str(<<"Email">>)],
   [NoTemplate EXCEPT !.severity_score = Null],
   [FieldsGiven EXCEPT !.sem_header = Str(StrB), !.sem_category = Null,
                       !.sem_recommendations = Null]}

DocPair ==
  <<Section(<<"S1">>,
      <<SubSection(<<"SS1">>, <<OldTemplate(StrA), OldTemplate(StrC)>>)>>)>>

FieldIds == {StrA, StrB}

Init ==
  /\ impl \in {"sync", "async"}
  /\ store \in StoreInputs
  /\ seed \in IF impl = "sync" THEN SeedInputs ELSE {Blob("absent", <<>>)}
  /\ last = NoRequest
  /\ hist = [fromEmpty |-> impl = "sync" /\ ReadJsonA(store, seed).doc = <<>>,
             headers |-> <<>>]
  /\ scn = NoScenario
  /\ Idle

\* POST /api/issues (sync server only; the async server has no such route)
Create ==
  \E p \in CreatePayloads :
    LET r == CreateA(p, store, seed) IN
      /\ impl = "sync"
      /\ r.status = 201 => CountTemplates(ReadJsonA(store, seed).doc) < MaxTemplates
      /\ Step("create", <<>>, p, r)

UpdateSync ==
  \E id \in Ids : \E p \in HeaderPatches :
    /\ impl = "sync"
    /\ Step("update", id, p, UpdateA(id, p, store, seed))

DeleteSync ==
  \E id \in Ids :
    /\ impl = "sync"
    /\ Step("delete", id, NoTemplate, DeleteA(id, store, seed))

UpdateAsync ==
  \E id \in Ids : \E p \in HeaderPatches :
    /\ impl = "async"
    /\ Step("update", id, p, UpdateB(id, p, store))

DeleteAsync ==
  \E id \in Ids :
    /\ impl = "async"
    /\ Step("delete", id, NoTemplate, DeleteB(id, store))

GetSync ==
  /\ impl = "sync"
  /\ GetStep(GetA(store, seed))

GetAsync ==
  /\ impl = "async"
  /\ GetStep(GetB(store))

Next ==
  Create \/ UpdateSync \/ DeleteSync \/ UpdateAsync \/ DeleteAsync
    \/ GetSync \/ GetAsync

Spec == Init /\ [][Next]_vars

\* load() alone, over every kind of data file and seed file
FileKinds == {"absent", "corrupt", "null", "nosections", "badsections"}

InitLoad ==
  /\ impl \in {"sync", "async"}
  /\ store \in {Blob(k, <<>>) : k \in FileKinds} \cup {DocBlob(d) : d \in InitDocs}
  /\ seed \in IF impl = "sync"
                THEN {Blob(k, <<>>) : k \in FileKinds}
                       \cup {DocBlob(<<>>), DocBlob(DocOne), DocBlob(DocTwo)}
                ELSE {Blob("absent", <<>>)}
  /\ last = NoRequest
  /\ hist = [fromEmpty |-> FALSE, headers |-> <<>>]
  /\ scn = NoScenario
  /\ Idle

NextLoad == GetSync \/ GetAsync

SpecLoad == InitLoad /\ [][NextLoad]_vars

\* the PUT and DELETE handlers under patches that carry the other fields
InitFields ==
  /\ impl \in {"sync", "async"}
  /\ store \in {Blob("absent", <<>>), DocBlob(DocOne), DocBlob(DocTwo), DocBlob(DocPair)}
  /\ seed \in IF impl = "sync" THEN {Blob("absent", <<>>), DocBlob(DocOne)}
                               ELSE {Blob("absent", <<>>)}
  /\ last = NoRequest
  /\ hist = [fromEmpty |-> FALSE, headers |-> <<>>]
  /\ scn = NoScenario
  /\ Idle

UpdateSyncFields ==
  \E id \in FieldIds : \E p \in FieldPatches :
    /\ impl = "sync"
    /\ Step("update", id, p, UpdateA(id, p, store, seed))

DeleteSyncFields ==
  \E id \in FieldIds :
    /\ impl = "sync"
    /\ Step("delete", id, NoTemplate, DeleteA(id, store, seed))

UpdateAsyncFields ==
  \E id \in FieldIds : \E p \in FieldPatches :
    /\ impl = "async"
    /\ Step("update", id, p, UpdateB(id, p, store))

DeleteAsyncFields ==
  \E id \in FieldIds :
    /\ impl = "async"
    /\ Step("delete", id, NoTemplate, DeleteB(id, store))

NextFields ==
  UpdateSyncFields \/ DeleteSyncFields \/ UpdateAsyncFields \/ DeleteAsyncFields

SpecFields == InitFields /\ [][NextFields]_vars

(* -------------------------------- claims -------------------------------- *)

StoredDoc == IF store.kind = "doc" THEN store.sections ELSE <<>>

\* C1: when Create(h) has succeeded, the same Create(h) sent next is answered
\* 409 and leaves the stored document as it is.
C1_SecondCreateConflicts ==
  [][(/\ last.op = "create" /\ last.status = 201
      /\ last'.op = "create" /\ last'.p = last.p)
       => (last'.status = 409 /\ store' = store)]_vars

\* C2: no two templates of the stored document have the same sem_header.
C2_UniqueHeaders ==
  \A q1, q2 \in Positions(StoredDoc) :
     q1 # q2 => TemplateAt(StoredDoc, q1).sem_header # TemplateAt(StoredDoc, q2).sem_header

\* C3: a Create whose sem_header is the header of a template anywhere in the
\* document is answered 409.
C3_GlobalDuplicateCheck ==
  [][(/\ last'.op = "create"
      /\ last'.p.sem_header \in AllHeaders(Loaded(store, seed, impl)))
       => last'.status = 409]_vars

Distinct(hs) == \A i, j \in 1..Len(hs) : i # j => hs[i] # hs[j]

\* C4: after N successful Creates with pairwise distinct headers from an empty
\* store, the flattened list has N issues and the k-th id is the k-th header.
C4_RoundTripFlatten ==
  (hist.fromEmpty /\ Distinct(hist.headers)) =>
     /\ Len(Flatten(StoredDoc)) = Len(hist.headers)
     /\ \A k \in 1..Len(hist.headers) : Flatten(StoredDoc)[k].id = Str(hist.headers[k])

NoEmptyContainers(doc) ==
  \A i \in 1..Len(doc) :
     /\ Len(doc[i].sub_sections) > 0
     /\ \A j \in 1..Len(doc[i].sub_sections) :
           Len(doc[i].sub_sections[j].finding_templates) > 0

\* C5: after a successful Delete the stored document has no sub-section
\* without templates and no section without sub-sections.
C5_DeletePrunes ==
  (last.op = "delete" /\ last.status = 200) => NoEmptyContainers(StoredDoc)

\* C6: after Create(A) and the rename of A to an unused B, Delete(A) and
\* Update(A, ...) are answered 404 and Delete(B) is answered 200.
C6_RenameChangesIdentity ==
  [][scn.stage = "renamed" =>
       /\ (last'.op \in {"delete", "update"} /\ last'.id = scn.a) => last'.status = 404
       /\ (last'.op = "delete" /\ last'.id = scn.b) => last'.status = 200]_vars

\* the data file once the serving revision has loaded it
AfterLoad(st, sd, im) == IF im = "sync" THEN ReadJsonA(st, sd).store ELSE st

\* the serving revision can read a document out of the data file
Readable(st, im) == im = "sync" \/ st.kind \notin {"absent", "corrupt", "badsections"}

C8_RejectedCreateWritesNothing ==
  [][(last'.op = "create" /\ last'.status \in {400, 409}) => store' = store]_vars

\* C8 (amended): a Create answered 400 leaves the data file as it was; a
\* Create answered 409 leaves it as load() left it (unchanged, or seeded by
\* load() when it was empty), without default containers or a new template.
C8_RejectedCreateLeavesLoad ==
  [][/\ (last'.op = "create" /\ last'.status = 400) => store' = store
     /\ (last'.op = "create" /\ last'.status = 409)
          => store' = AfterLoad(store, seed, impl)]_vars

\* a rejected Create: 409 over a seeded data file, or 400 over an empty one
C8_Witness ==
  /\ last.op = "create"
  /\ \/ last.status = 409 /\ seed.kind = "doc" /\ store = WriteJson(seed.sections)
     \/ last.status = 400 /\ store.kind = "absent"

TemplateFields ==
  {"sem_header", "sem_category", "severity_score", "sem_long_description",
   "sem_recommendations", "sem_resolution_instruction"}

\* C9: a successful Update changes, in the first template whose header is the
\* id, only fields that are present (non-null) in the patch, and nothing else
\* in the document.
C9_UpdateFrame ==
  [][(last'.op = "update" /\ last'.status = 200) =>
       LET before == Loaded(store, seed, impl)
           after  == store'.sections
           q      == FirstPos(Matches(before, last'.id))
       IN /\ store'.kind = "doc"
          /\ Positions(after) = Positions(before)
          /\ after = ReplaceAt(before, q, TemplateAt(after, q))
          /\ \A f \in TemplateFields :
                ~NotNullish(last'.p[f]) => TemplateAt(after, q)[f] = TemplateAt(before, q)[f]]_vars

\* the document a Create must leave when its new template is taken away
WithPlaceholders(doc) ==
  IF doc = <<>>
    THEN <<Section(DefaultSectionTitle, <<SubSection(DefaultSubsectionTitle, <<>>)>>)>>
  ELSE IF doc[1].sub_sections = <<>>
    THEN <<Section(doc[1].title, <<SubSection(DefaultSubsectionTitle, <<>>)>>)>>
           \o Tail(doc)
  ELSE doc

\* C10: a successful Create adds one template as the last element of the
\* first sub-section of the first section, adds placeholders only where the
\* section or sub-section is missing, changes nothing else, and returns the
\* template it stored.
C10_CreateFrame ==
  [][(last'.op = "create" /\ last'.status = 201) =>
       LET before == Loaded(store, seed, impl)
           after  == store'.sections
           fts    == after[1].sub_sections[1].finding_templates
       IN /\ store'.kind = "doc"
          /\ CountTemplates(after) = CountTemplates(before) + 1
          /\ fts[Len(fts)] = last'.ret
          /\ last'.ret.sem_header = Str(Trim(last'.p.sem_header.s))
          /\ [after EXCEPT ![1].sub_sections[1].finding_templates =
                              SubSeq(fts, 1, Len(fts) - 1)] = WithPlaceholders(before)]_vars

\* a Create into a first sub-section that already held a template
C10_Witness ==
  /\ last.op = "create" /\ last.status = 201
  /\ Len(StoredDoc[1].sub_sections[1].finding_templates) >= 2

(* ------------------------- flattening in the client --------------------- *)

Issue(id, name, ref, desc, recs, sev, cat) ==
  [id |-> id, name |-> name, reference |-> ref, description |-> desc,
   recommendations |-> recs, severityScore |-> sev, category |-> cat]

\* words that /^https?:\/\//i and /^[\w.-]+\.[a-z]{2,}([\/?#].*)?$/i accept
UrlAbsolute == {"https://x.io", "http://y.io/p"}
UrlBare     == {"x.io"}

\* normalizeUrl(u): the usable URL, or null
NormalizeUrl(u) ==
  IF ~Truthy(u) THEN Null
  ELSE LET s == Trim(ToStr(u)) IN
         IF s = <<>> THEN Null
         ELSE IF Head(s) \in UrlAbsolute THEN Str(s)
         ELSE IF Len(s) = 1 /\ s[1] \in UrlBare THEN Str(<<"https://">> \o s)
         ELSE Null

RECURSIVE FirstUsableUrl(_)
\* the loop over an array sem_resolution_instruction
FirstUsableUrl(a) ==
  IF a = <<>> THEN Undef
  ELSE IF NormalizeUrl(Str(Head(a))) # Null THEN NormalizeUrl(Str(Head(a)))
  ELSE FirstUsableUrl(Tail(a))

\* reference of an issue
Reference(instr) ==
  IF instr.t = "array" THEN FirstUsableUrl(instr.a)
  ELSE IF NormalizeUrl(instr) # Null THEN NormalizeUrl(instr) ELSE Undef

\* the separators of /\r?\n|•|- |\u2022/ as atoms
RecSeparators == {"\n", "\r\n", "bullet", "- "}

RECURSIVE SplitOn(_, _)
\* String.prototype.split on separator atoms
SplitOn(s, seps) ==
  IF s = <<>> THEN << <<>> >>
  ELSE LET r == SplitOn(Tail(s), seps) IN
         IF Head(s) \in seps THEN << <<>> >> \o r
         ELSE << <<Head(s)>> \o r[1] >> \o Tail(r)

\* .map((x) => x.trim()).filter(Boolean)
TrimAndDrop(a) ==
  SelectSeq([i \in 1..Len(a) |-> Trim(a[i])], LAMBDA x : x # <<>>)

\* normalizeRecommendations(val)
NormalizeRecommendations(val) ==
  IF ~Truthy(val) THEN Undef
  ELSE IF val.t = "array"
    THEN (IF TrimAndDrop(val.a) = <<>> THEN Undef ELSE Arr(TrimAndDrop(val.a)))
  ELSE LET str == Trim(ToStr(val)) IN
         IF str = <<>> THEN Undef
         ELSE IF TrimAndDrop(SplitOn(str, RecSeparators)) # <<>>
           THEN Arr(TrimAndDrop(SplitOn(str, RecSeparators)))
         ELSE Arr(<<str>>)

\* parseFloat(String(v)): the number the text starts with
ParseFloat(v) ==
  LET t == TrimStart(ToStr(v)) IN
    IF t # <<>> /\ Head(t) \in DOMAIN NumLit THEN Num(NumLit[Head(t)]) ELSE NaN

CATEGORY_OPTIONS ==
  << <<"Software", " ", "Updates">>, <<"Configuration", " ", "Changes">>,
     <<"Network", " ", "Exposures">>, <<"Security", " ", "Controls">>,
     <<"Email", " ", "Threats">> >>

CategoryOther == <<"Other">>

\* toLowerCase of a word
LowerWord(w) ==
  CASE w = "Software" -> "software" [] w = "Updates" -> "updates"
    [] w = "Configuration" -> "configuration" [] w = "Changes" -> "changes"
    [] w = "Network" -> "network" [] w = "Exposures" -> "exposures"
    [] w = "Security" -> "security" [] w = "Controls" -> "controls"
    [] w = "Email" -> "email" [] w = "Threats" -> "threats"
    [] w = "Other" -> "other" [] w = "Firewall" -> "firewall"
    [] OTHER -> w

ToLowerCase(s) == [i \in 1..Len(s) |-> LowerWord(s[i])]

\* the lower-case words that contain a keyword of normalizeCategoryLabel
WordsWith(k) ==
  CASE k = "software" -> {"software"}
    [] k = "config"   -> {"configuration", "config"}
    [] k = "network"  -> {"network", "networking"}
    [] k = "control"  -> {"controls", "control"}
    [] k = "email"    -> {"email", "emails"}

\* s.includes(k)
Includes(s, k) == \E i \in 1..Len(s) : s[i] \in WordsWith(k)

\* normalizeCategoryLabel(raw)
NormalizeCategoryLabel(raw) ==
  LET s == ToLowerCase(Trim(ToStr(IF Truthy(raw) THEN raw ELSE Str(<<>>)))) IN
    IF s = <<>> THEN CategoryOther
    ELSE IF Includes(s, "software") THEN CATEGORY_OPTIONS[1]
    ELSE IF Includes(s, "config") THEN CATEGORY_OPTIONS[2]
    ELSE IF Includes(s, "network") THEN CATEGORY_OPTIONS[3]
    ELSE IF Includes(s, "control") THEN CATEGORY_OPTIONS[4]
    ELSE IF Includes(s, "email") THEN CATEGORY_OPTIONS[5]
    ELSE IF \E i \in 1..Len(CATEGORY_OPTIONS) : ToLowerCase(CATEGORY_OPTIONS[i]) = s
      THEN CATEGORY_OPTIONS[CHOOSE i \in 1..Len(CATEGORY_OPTIONS) :
                              ToLowerCase(CATEGORY_OPTIONS[i]) = s]
    ELSE CategoryOther

\* the issue refreshFromServer pushes for a sem_template
SettingsIssue(st) ==
  Issue(st.sem_header, st.sem_header,
        Reference(st.sem_resolution_instruction),
        IF Truthy(st.sem_long_description) THEN st.sem_long_description ELSE Undef,
        NormalizeRecommendations(st.sem_recommendations),
        IF NotNullish(st.severity_score) THEN ToNumber(st.severity_score) ELSE Undef,
        Str(NormalizeCategoryLabel(IF Truthy(st.sem_category) THEN st.sem_category
                                   ELSE Undef)))

RECURSIVE RefreshFrom(_, _, _)
\* the loop of refreshFromServer
RefreshFrom(doc, qs, seen) ==
  IF qs = <<>> THEN <<>>
  ELSE LET st == TemplateAt(doc, Head(qs)) IN
         IF ~Truthy(st.sem_header) \/ st.sem_header \in seen
         THEN RefreshFrom(doc, Tail(qs), seen)
         ELSE <<SettingsIssue(st)>>
                \o RefreshFrom(doc, Tail(qs), seen \cup {st.sem_header})

\* variant: the templates are visited last to first
RefreshIssuesBackwards(doc) ==
  LET qs == PosSeq(Positions(doc)) IN
    RefreshFrom(doc, [i \in 1..Len(qs) |-> qs[Len(qs) + 1 - i]], {})

\* the issues refreshFromServer lists for a document
RefreshIssues(doc) == RefreshFrom(doc, PosSeq(Positions(doc)), {})

\* Math.random().toString(36).slice(2, 8)
RandomSuffixes == {<<>>, <<"k3x9q1">>}

\* the templates of the model carry no uuid and no identifier
ExtractId(name, rnd) == Str(ToStr(name) \o <<"-">> \o rnd)

\* the issue extractIssues pushes for a sem_template
AppIssue(st, rnd) ==
  Issue(ExtractId(st.sem_header, rnd), st.sem_header,
        Reference(st.sem_resolution_instruction),
        IF Truthy(st.sem_long_description) THEN st.sem_long_description ELSE Undef,
        NormalizeRecommendations(st.sem_recommendations),
        IF st.severity_score.t = "number" THEN st.severity_score
        ELSE IF NotNullish(st.severity_score) THEN ParseFloat(st.severity_score)
        ELSE Undef,
        IF Truthy(st.sem_category) THEN st.sem_category ELSE Undef)

RECURSIVE ExtractFrom(_, _, _, _)
\* the loop of extractIssues; rnd holds the values Math.random will give
ExtractFrom(doc, qs, seen, rnd) ==
  IF qs = <<>> THEN <<>>
  ELSE LET st == TemplateAt(doc, Head(qs)) IN
         IF ~Truthy(st.sem_header) \/ st.sem_header \in seen
         THEN ExtractFrom(doc, Tail(qs), seen, rnd)
         ELSE <<AppIssue(st, Head(rnd))>>
                \o ExtractFrom(doc, Tail(qs), seen \cup {st.sem_header}, Tail(rnd))

\* extractIssues(data)
ExtractIssues(doc, rnd) == ExtractFrom(doc, PosSeq(Positions(doc)), {}, rnd)

\* the headers of the documents that are flattened
FlattenHeaders == {Str(StrA), Str(StrWA), Str(<<>>)}

\* the k-th template of such a document
ListedTemplate(h, k) ==
  SemTemplate(h, Str(<<"Network">>), Num(50), Str([i \in 1..k |-> "d"]),
              Arr(<< <<"r">> >>), Arr(<< <<"u">> >>))

\* templates ts in three sub-sections of two sections, cut after k and after m
ShapeDoc(ts, k, m) ==
  <<Section(<<"S1">>, <<SubSection(<<"SS1">>, SubSeq(ts, 1, k)),
                        SubSection(<<"SS2">>, SubSeq(ts, k + 1, m))>>),
    Section(<<"S2">>, <<SubSection(<<"SS3">>, SubSeq(ts, m + 1, Len(ts)))>>)>>

\* the cuts <<k, m>> of n templates
Cuts(n) == {c \in (0..n) \X (0..n) : c[1] <= c[2]}

FlattenDocs ==
  UNION {UNION {{ShapeDoc([i \in 1..n |-> ListedTemplate(hs[i], i)], c[1], c[2]) :
                   c \in Cuts(n)} :
                 hs \in [1..n -> FlattenHeaders]} :
           n \in 0..MaxListed}

GetRequest(status) ==
  [op |-> "get", status |-> status, id |-> <<>>, p |-> NoTemplate, ret |-> NoTemplate]

InitFlatten ==
  /\ impl \in {"sync", "async"}
  /\ store \in {DocBlob(d) : d \in FlattenDocs}
  /\ seed = Blob("absent", <<>>)
  /\ last = NoRequest
  /\ hist = [fromEmpty |-> FALSE, headers |-> <<>>]
  /\ scn = NoScenario
  /\ Idle

\* Settings: getIssues(), then the flattening loop, then setLocalIssues(out);
\* a failed GET or a body whose sections cannot be iterated throws
RefreshFromServer ==
  LET r == IF impl = "sync" THEN GetA(store, seed) ELSE GetB(store) IN
    /\ store' = r.store
    /\ body' = r.body
    /\ last' = GetRequest(r.status)
    /\ ui' = IF r.status = 200 /\ r.body.kind \in {"doc", "nosections"}
             THEN [view |-> "settings", issues |-> RefreshIssues(r.body.sections)]
             ELSE ui
    /\ UNCHANGED <<impl, seed, hist, scn, nget, race, net>>

\* App: allIssues = extractIssues(raw) over the issues file as it is
ExtractOnMount ==
  /\ store.kind \notin {"absent", "corrupt"}
  /\ \E rnd \in [1..CountTemplates(store.sections) -> RandomSuffixes] :
       ui' = [view |-> "app", issues |-> ExtractIssues(store.sections, rnd)]
  /\ UNCHANGED <<impl, store, seed, last, hist, scn, body, nget, race, net>>

NextFlatten == RefreshFromServer \/ ExtractOnMount

SpecFlatten == InitFlatten /\ [][NextFlatten]_vars

\* the positions of the templates with a name, and the first one with name h
NamedPositions(doc) == {p \in Positions(doc) : Truthy(TemplateAt(doc, p).sem_header)}

FirstNamed(doc, h) ==
  FirstPos({p \in NamedPositions(doc) : TemplateAt(doc, p).sem_header = h})

\* C16: the flattened list holds every distinct non-empty sem_header of the
\* document exactly once and nothing else, in the document order of the
\* first template with that header, and with the fields of that template.
C16_FlattenOrderDedup ==
  ui.view # "none" =>
    LET doc == store.sections
        hs  == {TemplateAt(doc, p).sem_header : p \in NamedPositions(doc)}
        n   == Len(ui.issues)
    IN /\ \A h \in hs : Cardinality({i \in 1..n : ui.issues[i].name = h}) = 1
       /\ \A i \in 1..n : ui.issues[i].name \in hs
       /\ \A i, j \in 1..n :
            i < j => PosLess(FirstNamed(doc, ui.issues[i].name),
                             FirstNamed(doc, ui.issues[j].name))
       /\ \A i \in 1..n :
            ui.issues[i].description =
              TemplateAt(doc, FirstNamed(doc, ui.issues[i].name)).sem_long_description

\* a list of two issues made from three templates, two of them with one header
C16_Witness ==
  /\ ui.view = "settings"
  /\ Len(ui.issues) = 2
  /\ Cardinality(NamedPositions(store.sections)) = 3
  /\ \E p \in NamedPositions(store.sections) :
       /\ TemplateAt(store.sections, p).sem_header = ui.issues[1].name
       /\ p # FirstNamed(store.sections, ui.issues[1].name)
       /\ PosLess(FirstNamed(store.sections, ui.issues[2].name), p)

\* C17: every issue of a flattened list has id = name = the stored sem_header.
C17_IdentityPreserving ==
  ui.view # "none" =>
    \A i \in 1..Len(ui.issues) :
      /\ ui.issues[i].id = ui.issues[i].name
      /\ \E p \in Positions(store.sections) :
           TemplateAt(store.sections, p).sem_header = ui.issues[i].name

(* --------------------------- severity buckets --------------------------- *)
(* Severity scores of this part are in thousandths (0.61 is 610).           *)

CriticalFrom  == 900
ImportantFrom == 610
ModerateUpTo  == 600
ImportantUpTo == 890

\* score == null || Number.isNaN(score)
UnknownScore(score) == ~NotNullish(score) \/ score.t = "nan"

\* sevBucket(score) of Settings.tsx
SevBucket(score) ==
  IF UnknownScore(score) THEN "Unknown"
  ELSE IF score.n >= CriticalFrom THEN "Critical"
  ELSE IF score.n >= ImportantFrom THEN "Important"
  ELSE "Moderate"

\* score.toFixed(2), in hundredths
ToFixed2(score) == (score.n + 5) \div 10

\* sevLabel(score) of Settings.tsx: the bucket word and the score
SevLabel(score) ==
  IF UnknownScore(score) THEN [word |-> "Unknown", fixed |-> 0]
  ELSE IF score.n >= CriticalFrom THEN [word |-> "Critical", fixed |-> ToFixed2(score)]
  ELSE IF score.n >= ImportantFrom THEN [word |-> "Important", fixed |-> ToFixed2(score)]
  ELSE [word |-> "Moderate", fixed |-> ToFixed2(score)]

\* getSeverityLabel(score) of App.tsx
GetSeverityLabel(score) ==
  IF UnknownScore(score) THEN "Unknown"
  ELSE IF score.n >= CriticalFrom THEN "Critical"
  ELSE IF score.n >= ImportantFrom THEN "Important"
  ELSE "Moderate"

NoIcon == "none"

\* variant: 0.6 itself is no longer Moderate
ListIconBelow(score) ==
  IF ~NotNullish(score) THEN NoIcon
  ELSE IF score.t = "number" /\ score.n < ModerateUpTo THEN "/icons/moderate.png"
  ELSE IF score.t = "number" /\ score.n <= ImportantUpTo THEN "/icons/important.png"
  ELSE "/icons/critical.png"

\* the icon of IssueList.tsx, and of the title of Copilot.tsx: both
\* comparisons are false for NaN
ListIcon(score) ==
  IF ~NotNullish(score) THEN NoIcon
  ELSE IF score.t = "number" /\ score.n <= ModerateUpTo THEN "/icons/moderate.png"
  ELSE IF score.t = "number" /\ score.n <= ImportantUpTo THEN "/icons/important.png"
  ELSE "/icons/critical.png"

\* severityIcon of the Copilot panel (part_003)
PanelIcon(score) ==
  IF score.t \notin {"number", "nan"} THEN NoIcon
  ELSE IF score.t = "number" /\ score.n <= ModerateUpTo THEN "/icons/moderate.png"
  ELSE IF score.t = "number" /\ score.n <= ImportantUpTo THEN "/icons/important.png"
  ELSE "/icons/critical.png"

\* the Severity line of buildIssueContext (part_003)
ContextLabel(score) ==
  IF score.t \notin {"number", "nan"} THEN "none"
  ELSE IF score.t = "number" /\ score.n >= CriticalFrom THEN "Critical"
  ELSE IF score.t = "number" /\ score.n >= ImportantFrom THEN "Important"
  ELSE "Moderate"

\* i.severityScore ?? 0
ScoreOrZero(i) == IF NotNullish(i.severityScore) THEN i.severityScore.n ELSE 0

\* the names of the scored issues, in localeCompare order
ScoredNames == <<"a", "b", "c">>

NameRank(i) == CHOOSE k \in 1..Len(ScoredNames) : ScoredNames[k] = i.name.s[1]

\* the comparators: (b.severityScore ?? 0) - (a.severityScore ?? 0) < 0, and
\* a.name.localeCompare(b.name) < 0
Before(sortBy, a, b) ==
  IF sortBy = "Severity" THEN ScoreOrZero(a) > ScoreOrZero(b)
  ELSE NameRank(a) < NameRank(b)

RECURSIVE InsertSorted(_, _, _)
InsertSorted(x, s, sortBy) ==
  IF s = <<>> THEN <<x>>
  ELSE IF Before(sortBy, x, Head(s)) THEN <<x>> \o s
  ELSE <<Head(s)>> \o InsertSorted(x, Tail(s), sortBy)

RECURSIVE StableSort(_, _)
\* [...rows].sort(compare): equal elements keep their order
StableSort(s, sortBy) ==
  IF s = <<>> THEN <<>>
  ELSE InsertSorted(s[Len(s)], StableSort(SubSeq(s, 1, Len(s) - 1), sortBy), sortBy)

\* counts of App.tsx
SeverityCounts(all) ==
  [b \in {"All", "Critical", "Important", "Moderate"} |->
     IF b = "All" THEN Len(all)
     ELSE Cardinality({i \in 1..Len(all) : GetSeverityLabel(all[i].severityScore) = b})]

\* issues of App.tsx under the default sort
MainRows(all, filter) ==
  StableSort(IF filter = "All" THEN all
             ELSE SelectSeq(all, LAMBDA i : GetSeverityLabel(i.severityScore) = filter),
             "Severity")

\* filtered of Settings.tsx with no search, no category filter, sort by title
SettingsRows(all, filter) ==
  StableSort(IF filter = "All" THEN all
             ELSE SelectSeq(all, LAMBDA i : SevBucket(i.severityScore) = filter),
             "Title")

NoPanel == [icon |-> NoIcon, label |-> "none", title |-> NoIcon]

\* what the main view shows
MainView(all, filter, panel) ==
  LET rows == MainRows(all, filter) IN
    [view |-> "main", issues |-> all, filter |-> filter, appFilter |-> filter,
     rows |-> rows,
     counts |-> SeverityCounts(all),
     icons |-> [k \in 1..Len(rows) |-> ListIcon(rows[k].severityScore)],
     labels |-> <<>>, panel |-> panel]

\* what the Settings table shows
SettingsView(all, filter, appFilter, panel) ==
  LET rows == SettingsRows(all, filter) IN
    [view |-> "settings", issues |-> all, filter |-> filter, appFilter |-> appFilter,
     rows |-> rows,
     counts |-> SeverityCounts(all), icons |-> <<>>,
     labels |-> [k \in 1..Len(rows) |-> SevLabel(rows[k].severityScore)],
     panel |-> panel]

ScoreInputs == {Num(0), Num(600), Num(610), Num(890), Num(900), Num(1000), Undef}

ScoredIssue(k, score) ==
  Issue(Str(<<ScoredNames[k]>>), Str(<<ScoredNames[k]>>), Undef, Undef, Undef, score,
        Str(CategoryOther))

InitSeverity ==
  /\ impl = "sync"
  /\ store = DocBlob(<<>>)
  /\ seed = Blob("absent", <<>>)
  /\ last = NoRequest
  /\ hist = [fromEmpty |-> FALSE, headers |-> <<>>]
  /\ scn = NoScenario
  /\ body = NoBody
  /\ nget = 0
  /\ race = RaceIdle
  /\ net = NetIdle
  /\ \E n \in 1..MaxScored : \E sc \in [1..n -> ScoreInputs] :
       ui = MainView([k \in 1..n |-> ScoredIssue(k, sc[k])], "All", NoPanel)

ServerIdle == UNCHANGED <<impl, store, seed, last, hist, scn, body, nget, race, net>>

\* a click on a filter pill of the main view: setFilter, setSelected(null)
SetFilter ==
  /\ ui.view = "main"
  /\ \E f \in {"All", "Critical", "Important", "Moderate"} :
       ui' = MainView(ui.issues, f, NoPanel)
  /\ ServerIdle

\* a click on a row of the list: the Copilot panel shows the issue
HandleSelect ==
  /\ ui.view = "main"
  /\ \E k \in 1..Len(ui.rows) :
       ui' = MainView(ui.issues, ui.filter,
                      [icon  |-> PanelIcon(ui.rows[k].severityScore),
                       label |-> ContextLabel(ui.rows[k].severityScore),
                       title |-> ListIcon(ui.rows[k].severityScore)])
  /\ ServerIdle

\* the Settings button: setView('settings'), setSelected(null)
OpenSettings ==
  /\ ui.view = "main"
  /\ ui' = SettingsView(ui.issues, "All", ui.appFilter, NoPanel)
  /\ ServerIdle

\* the severity filter of the Settings table
SetFilterSeverity ==
  /\ ui.view = "settings"
  /\ \E f \in {"All", "Critical", "Important", "Moderate"} :
       ui' = SettingsView(ui.issues, f, ui.appFilter, ui.panel)
  /\ ServerIdle

\* onBack: the main view is shown again with its filter, nothing selected
BackToMain ==
  /\ ui.view = "settings"
  /\ ui' = MainView(ui.issues, ui.appFilter, NoPanel)
  /\ ServerIdle

NextSeverity ==
  SetFilter \/ HandleSelect \/ OpenSettings \/ SetFilterSeverity \/ BackToMain

SpecSeverity == InitSeverity /\ [][NextSeverity]_vars

\* the bucket the specification gives to the six scores
ExpectedBucket(score) ==
  CASE score.n \in {0, 600}    -> "Moderate"
    [] score.n \in {610, 890}  -> "Important"
    [] score.n \in {900, 1000} -> "Critical"

IconOf(bucket) ==
  CASE bucket = "Moderate" -> "/icons/moderate.png"
    [] bucket = "Important" -> "/icons/important.png"
    [] bucket = "Critical" -> "/icons/critical.png"

Scored(all) == {i \in 1..Len(all) : all[i].severityScore.t = "number"}

\* C18: 0.0 and 0.6 are Moderate, 0.61 and 0.89 Important, 0.9 and 1.0
\* Critical in the counts, the filtered rows, the list icons, the table
\* labels and the Copilot panel.
C18_SeverityBuckets ==
  LET all == ui.issues
      in(b) == {all[i].name : i \in {j \in Scored(all) :
                                        ExpectedBucket(all[j].severityScore) = b}}
  IN /\ \A b \in {"Moderate", "Important", "Critical"} :
          ui.counts[b] = Cardinality(in(b))
     /\ ui.filter # "All" =>
          {ui.rows[k].name : k \in 1..Len(ui.rows)} = in(ui.filter)
     /\ \A k \in 1..Len(ui.icons) :
          ui.rows[k].severityScore.t = "number" =>
            ui.icons[k] = IconOf(ExpectedBucket(ui.rows[k].severityScore))
     /\ \A k \in 1..Len(ui.labels) :
          ui.rows[k].severityScore.t = "number" =>
            ui.labels[k].word = ExpectedBucket(ui.rows[k].severityScore)
     /\ ui.panel.label # "none" =>
          /\ ui.panel.icon = IconOf(ui.panel.label)
          /\ ui.panel.title = IconOf(ui.panel.label)
          /\ \E k \in Scored(all) :
               ExpectedBucket(all[k].severityScore) = ui.panel.label

\* the main view filtered to Important shows the issue scored 0.61, not the
\* one scored 0.6, and the panel shows it as Important
C18_Witness ==
  /\ ui.view = "main" /\ ui.filter = "Important"
  /\ Len(ui.issues) = 2 /\ Len(ui.rows) = 1
  /\ ui.rows[1].severityScore = Num(610)
  /\ \E i \in 1..2 : ui.issues[i].severityScore = Num(600)
  /\ ui.icons[1] = "/icons/important.png"
  /\ ui.panel.label = "Important"

\* scores at and between the bounds of the two rules
BoundaryScores == {Num(600), Num(605), Num(610), Num(890), Num(895), Num(900)}

InitBuckets ==
  /\ impl = "sync"
  /\ store = DocBlob(<<>>)
  /\ seed = Blob("absent", <<>>)
  /\ last = NoRequest
  /\ hist = [fromEmpty |-> FALSE, headers |-> <<>>]
  /\ scn = NoScenario
  /\ body = NoBody
  /\ nget = 0
  /\ race = RaceIdle
  /\ net = NetIdle
  /\ \E n \in 1..MaxScored : \E sc \in [1..n -> BoundaryScores] :
       ui = MainView([k \in 1..n |-> ScoredIssue(k, sc[k])], "All", NoPanel)

SpecBuckets == InitBuckets /\ [][NextSeverity]_vars

\* C28: the icon of every row of the list is the icon of the bucket that
\* the label rule gives to the score of the row, and the icons of the
\* Copilot panel are those of the label of its context.
C28_ConsistentBuckets ==
  /\ \A k \in 1..Len(ui.icons) :
       ui.icons[k] = IconOf(GetSeverityLabel(ui.rows[k].severityScore))
  /\ ui.panel.label # "none" =>
       /\ ui.panel.icon = IconOf(ui.panel.label)
       /\ ui.panel.title = IconOf(ui.panel.label)

(* ----------------------- the dialogs of Settings.tsx -------------------- *)

RECURSIVE JoinLines(_)
\* Array.prototype.join('\n')
JoinLines(a) ==
  IF a = <<>> THEN <<>>
  ELSE IF Len(a) = 1 THEN a[1]
  ELSE a[1] \o <<"\n">> \o JoinLines(Tail(a))

\* recs.split('\n').map((x) => x.trim()).filter(Boolean)
RecsOfText(text) == Arr(TrimAndDrop(SplitOn(text, {"\n"})))

\* the state of EditDialog when it opens on an issue of the list
DialogOpen(issue) ==
  LET cat == NormalizeCategoryLabel(issue.category) IN
    [name        |-> issue.name.s,
     category    |-> IF cat # <<>> THEN cat ELSE DefaultCategory,
     severity    |-> IF NotNullish(issue.severityScore) THEN issue.severityScore
                     ELSE Num(50),
     reference   |-> IF Truthy(issue.reference) THEN issue.reference.s ELSE <<>>,
     description |-> IF Truthy(issue.description) THEN issue.description.s ELSE <<>>,
     recs        |-> IF issue.recommendations.t = "array"
                     THEN JoinLines(issue.recommendations.a) ELSE <<>>]

\* the state of CreateDialog when it opens
DialogNew ==
  [name |-> <<>>, category |-> DefaultCategory, severity |-> Num(50),
   reference |-> <<>>, description |-> <<>>, recs |-> <<>>]

\* the body of the PUT or POST that Save sends for a dialog, as JSON
DialogPayload(dlg) ==
  JsonTemplate(
    SemTemplate(Str(Trim(dlg.name)), Str(dlg.category), dlg.severity,
                Str(dlg.description), RecsOfText(dlg.recs),
                IF Trim(dlg.reference) # <<>> THEN Arr(<<Trim(dlg.reference)>>)
                ELSE Arr(<<>>)))

\* the titles typed into the dialogs
TypedNames == {StrB, StrWB, StrC}

\* the stored categories: not canonical, canonical, unknown, empty
CategoryInputs ==
  {<<"Network">>, <<"Network", " ", "Exposures">>, <<"Firewall">>, <<>>}

\* the stored instructions: no URL, several URLs, one bare string
InstructionInputs ==
  {Arr(<< <<"u">> >>), Arr(<< <<"https://x.io">>, <<"http://y.io/p">> >>), Str(<<"x.io">>)}

\* the stored recommendations: an array, one string of two lines
RecommendationInputs == {Arr(<< <<"r">> >>), Str(<<"r1", "\n", "r2">>)}

EditDocs ==
  {<<Section(<<"S1">>, <<SubSection(<<"SS1">>,
       <<[OldTemplate(StrA) EXCEPT !.sem_category = Str(c),
                                   !.sem_resolution_instruction = i,
                                   !.sem_recommendations = r]>>)>>)>> :
     c \in CategoryInputs, i \in InstructionInputs, r \in RecommendationInputs}

\* Settings is mounted with the list App made with extractIssues
InitEdit ==
  /\ impl = "sync"
  /\ store \in {DocBlob(d) : d \in EditDocs}
  /\ seed = Blob("absent", <<>>)
  /\ last = NoRequest
  /\ hist = [fromEmpty |-> FALSE, headers |-> <<>>]
  /\ scn = NoScenario
  /\ body = NoBody
  /\ nget = 0
  /\ race = RaceIdle
  /\ net = NetIdle
  /\ \E rnd \in [1..CountTemplates(store.sections) -> RandomSuffixes] :
       ui = [view |-> "settings", issues |-> ExtractIssues(store.sections, rnd)]

\* after the request of a dialog: refreshFromServer when it succeeded, an
\* alert and the list as it was when it failed
SaveAndRefresh(op, id, p, r) ==
  /\ IF r.status \in {200, 201}
     THEN LET g == GetA(r.store, seed) IN
            /\ store' = g.store
            /\ body' = g.body
            /\ last' = GetRequest(g.status)
            /\ ui' = [view |-> "settings", issues |-> RefreshIssues(g.body.sections)]
     ELSE /\ store' = r.store
          /\ body' = NoBody
          /\ last' = Request(op, id, p, r)
          /\ ui' = ui
  /\ UNCHANGED <<impl, seed, hist, scn, nget, race, net>>

\* Save of the Edit dialog on row k, the user having typed a new title or
\* nothing: updateIssue(editing.id, ...), then refreshFromServer
EditSave ==
  /\ ui.view = "settings"
  /\ \E k \in 1..Len(ui.issues) :
       \E name \in {ui.issues[k].name.s} \cup TypedNames :
         LET dlg == [DialogOpen(ui.issues[k]) EXCEPT !.name = name]
             p   == DialogPayload(dlg)
         IN SaveAndRefresh("update", ui.issues[k].id.s, p,
                           UpdateA(ui.issues[k].id.s, p, store, seed))

\* Save of the Create dialog with a typed title: trySave, then the checks of
\* onSave, createIssue and refreshFromServer
CreateSave ==
  /\ ui.view = "settings"
  /\ CountTemplates(ReadJsonA(store, seed).doc) < MaxTemplates
  /\ \E name \in TypedNames :
       LET dlg == [DialogNew EXCEPT !.name = name]
           p   == DialogPayload(dlg)
       IN /\ Str(Trim(name)) \notin {ui.issues[i].name : i \in 1..Len(ui.issues)}
          /\ SaveAndRefresh("create", <<>>, p, CreateA(p, store, seed))

NextEdit == EditSave \/ CreateSave

SpecEdit == InitEdit /\ [][NextEdit]_vars

\* C19: no list load and no Edit-dialog save changes the sem_category of a
\* stored template.
C19_CategoryKept ==
  [][\A q \in Positions(store.sections) :
       /\ q \in Positions(store'.sections)
       /\ TemplateAt(store'.sections, q).sem_category
            = TemplateAt(store.sections, q).sem_category]_vars

\* C27: a save of the Edit dialog that leaves the title of a template as it
\* was leaves its sem_resolution_instruction and its sem_recommendations as
\* they were.
C27_EditRoundTrip ==
  [][\A q \in Positions(store.sections) :
       (/\ q \in Positions(store'.sections)
        /\ TemplateAt(store'.sections, q).sem_header
             = TemplateAt(store.sections, q).sem_header)
       => /\ TemplateAt(store'.sections, q).sem_resolution_instruction
               = TemplateAt(store.sections, q).sem_resolution_instruction
          /\ TemplateAt(store'.sections, q).sem_recommendations
               = TemplateAt(store.sections, q).sem_recommendations]_vars

(* ------------------ requests in flight on the async server -------------- *)
(* A handler of src/server/index.js yields at "await readJson" and at       *)
(* "await writeJson"; fs.writeFile opens the file with flag w, which        *)
(* empties it, and writes the text afterwards.                              *)

\* variant: the document is saved as it was read
HandlerBNoChange(op, id, p, st) == Response(200, st, NoTemplate)

\* the handler of a PUT or DELETE on the file it has read
HandlerB(op, id, p, st) ==
  IF op = "delete" THEN DeleteB(id, st) ELSE UpdateB(id, p, st)

\* the atoms of the strings of an array
RECURSIVE SumLen(_)
SumLen(a) == IF a = <<>> THEN 0 ELSE Len(Head(a)) + SumLen(Tail(a))

\* the length of the JSON text of a value and of a template, in atoms
ValSize(v) == IF v.t = "array" THEN 1 + SumLen(v.a) ELSE 1 + Len(v.s)

TemplateSize(t) ==
  ValSize(t.sem_header) + ValSize(t.sem_category) + ValSize(t.severity_score)
    + ValSize(t.sem_long_description) + ValSize(t.sem_recommendations)
    + ValSize(t.sem_resolution_instruction)

RECURSIVE SizeAt(_, _)
SizeAt(doc, qs) ==
  IF qs = <<>> THEN 0
  ELSE TemplateSize(TemplateAt(doc, Head(qs))) + SizeAt(doc, Tail(qs))

DocSize(doc) == SizeAt(doc, PosSeq(Positions(doc)))

\* the file after a text is written at offset 0 of what it holds: a shorter
\* text leaves the tail of a longer one in place
Overwrite(st, out) ==
  IF st.kind \in {"truncated", "absent"} THEN {out}
  ELSE IF st.kind = "doc"
    THEN (IF DocSize(out.sections) < DocSize(st.sections)
          THEN {Blob("corrupt", <<>>)} ELSE {out})
  ELSE {out, Blob("corrupt", <<>>)}

NoProc == [pc |-> "idle", op |-> "none", id |-> <<>>, p |-> NoTemplate,
           snap |-> Blob("absent", <<>>), out |-> Blob("absent", <<>>),
           status |-> 0, body |-> NoBody]

RaceRequests ==
  {[NoProc EXCEPT !.op = "get"],
   [NoProc EXCEPT !.op = "put", !.id = StrA,
                  !.p = [NoTemplate EXCEPT !.sem_category = Str(<<"Email">>)]],
   [NoProc EXCEPT !.op = "put", !.id = StrC,
                  !.p = [NoTemplate EXCEPT !.severity_score = Num(95)]],
   [NoProc EXCEPT !.op = "delete", !.id = StrA],
   [NoProc EXCEPT !.op = "delete", !.id = StrC]}

InitRace ==
  /\ impl = "async"
  /\ store = DocBlob(DocPair)
  /\ seed = Blob("absent", <<>>)
  /\ last = NoRequest
  /\ hist = [fromEmpty |-> FALSE, headers |-> <<>>]
  /\ scn = NoScenario
  /\ body = NoBody
  /\ nget = 0
  /\ ui = UiIdle
  /\ net = NetIdle
  /\ race = [procs |-> [k \in 1..MaxInFlight |-> NoProc], saved |-> <<>>,
             committed |-> {store}]

RaceFrame == UNCHANGED <<impl, seed, last, hist, scn, body, nget, ui, net>>

\* a request reaches its handler, which starts readJson
Arrive ==
  /\ \E k \in 1..MaxInFlight : \E req \in RaceRequests :
       /\ race.procs[k].pc = "idle"
       /\ race' = [race EXCEPT !.procs[k] = [req EXCEPT !.pc = "read"]]
  /\ UNCHANGED store
  /\ RaceFrame

\* readFile and JSON.parse complete; the handler runs up to its next await
\* or to its response
ReadFile ==
  /\ \E k \in 1..MaxInFlight :
       LET me == race.procs[k] IN
         /\ me.pc = "read"
         /\ race' = [race EXCEPT !.procs[k] =
              IF me.op = "get"
              THEN [me EXCEPT !.pc = "done", !.snap = store,
                              !.status = GetB(store).status, !.body = GetB(store).body]
              ELSE LET r == HandlerB(me.op, me.id, me.p, store) IN
                     IF r.status = 200
                     THEN [me EXCEPT !.pc = "write", !.snap = store, !.out = r.store]
                     ELSE [me EXCEPT !.pc = "done", !.snap = store, !.status = r.status]]
  /\ UNCHANGED store
  /\ RaceFrame

\* fs.writeFile opens the file: it is empty until the text is written
OpenFile ==
  /\ \E k \in 1..MaxInFlight :
       /\ race.procs[k].pc = "write"
       /\ race' = [race EXCEPT !.procs[k].pc = "flush"]
  /\ store' = Blob("truncated", <<>>)
  /\ RaceFrame

\* fs.writeFile writes the text; the handler responds {ok: true}
WriteFile ==
  /\ \E k \in 1..MaxInFlight :
       /\ race.procs[k].pc = "flush"
       /\ store' \in Overwrite(store, race.procs[k].out)
       /\ race' = [race EXCEPT !.procs[k].pc = "done", !.procs[k].status = 200,
                               !.saved = Append(@, k),
                               !.committed = @ \cup ({store'} \ {Blob("corrupt", <<>>)})]
  /\ RaceFrame

NextRace == Arrive \/ ReadFile \/ OpenFile \/ WriteFile

SpecRace == InitRace /\ [][NextRace]_vars

\* the requests that changed the file and were answered 200
Writers == {k \in 1..MaxInFlight : race.procs[k].pc = "done" /\ race.procs[k].op # "get"
                                     /\ race.procs[k].status = 200}

Settled == \A k \in 1..MaxInFlight : race.procs[k].pc \notin {"write", "flush"}

\* the file a request would leave when it ran alone on the file st
Alone(k, st) ==
  IF race.procs[k].op = "delete" THEN DeleteB(race.procs[k].id, st).store
  ELSE UpdateB(race.procs[k].id, race.procs[k].p, st).store

\* C14: once the writes are over and the file is a document, it is the
\* document the request that saved last made from what that request had
\* read, whatever the other requests saved in between.
C14_LastSaverWins ==
  (Settled /\ race.saved # <<>> /\ store.kind = "doc") =>
    LET k == race.saved[Len(race.saved)] IN store = Alone(k, race.procs[k].snap)

\* two requests read the same file and were both answered 200; the file
\* holds the change of the second saver and not the change of the first
C14_Witness ==
  /\ Settled /\ store.kind = "doc" /\ Len(race.saved) = 2
  /\ LET k == race.saved[1]
         m == race.saved[2]
     IN /\ k # m /\ {k, m} \subseteq Writers
        /\ race.procs[k].snap = race.procs[m].snap
        /\ store = Alone(m, race.procs[m].snap)
        /\ store # Alone(m, Alone(k, race.procs[k].snap))
        /\ store # Alone(k, Alone(m, race.procs[k].snap))

\* C15: a GET answered while other requests are in flight returns a
\* complete document that the file held before or after a save.
C15_ReadersSeeWholeDocument ==
  \A k \in 1..MaxInFlight :
    (race.procs[k].op = "get" /\ race.procs[k].pc = "done") =>
      /\ race.procs[k].status = 200
      /\ race.procs[k].body \in race.committed

(* ------------------------------ /api/scrape ----------------------------- *)
(* Three revisions of the route are in the repository:                      *)
(*   "cheerio" : src/unnamed/part_000, 202-241                              *)
(*   "filter"  : src/server/index.js, 60-107                                *)
(*   "set"     : src/server/index.js, 332-348                               *)

\* what the site behind a URL does: answers 200, answers 404, refuses the
\* connection, never answers, answers 200 and never finishes the body
Sites ==
  [u \in {"https://ok.example", "https://missing.example", "https://down.example",
          "https://slow.example", "https://stall.example"} |->
     CASE u = "https://ok.example"      -> "ok"
       [] u = "https://missing.example" -> "missing"
       [] u = "https://down.example"    -> "down"
       [] u = "https://slow.example"    -> "slow"
       [] u = "https://stall.example"   -> "stall"]

\* isValidHttpUrl(s): new URL(s) parses and the protocol is http: or https:
IsValidHttpUrl(s) == Len(Trim(s)) = 1 /\ Trim(s)[1] \in DOMAIN Sites

\* how fetch(url) goes: "invalid" when fetch rejects the URL itself
SiteOf(s) == IF IsValidHttpUrl(s) THEN Sites[Trim(s)[1]] ELSE "invalid"

RECURSIVE Unique(_, _)
\* Array.from(new Set(urls))
Unique(urls, seen) ==
  IF urls = <<>> THEN <<>>
  ELSE IF Head(urls) \in seen THEN Unique(Tail(urls), seen)
  ELSE <<Head(urls)>> \o Unique(Tail(urls), seen \cup {Head(urls)})

ScrapeCap == 10

\* .slice(0, n)
Slice(a, n) == SubSeq(a, 1, IF Len(a) < n THEN Len(a) ELSE n)

\* the URLs a revision fetches for a request
Targets(rev, urls) ==
  CASE rev = "cheerio" -> [i \in 1..Len(urls) |-> Trim(urls[i])]
    [] rev = "filter"  ->
         Slice(SelectSeq(Unique(urls, {}), IsValidHttpUrl), ScrapeCap)
    [] rev = "set"     -> Slice(Unique(urls, {}), ScrapeCap)

Result(url, ok, status, text) ==
  [url |-> url, ok |-> ok, status |-> status, text |-> text]

\* the text a revision extracts from the page of a site
PageText == <<"page">>

\* a fetch that has not produced its entry: awaiting fetch() or r.text()
Pending(url, at) == [at |-> at, entry |-> Result(url, FALSE, 0, <<>>)]
Done(entry)      == [at |-> "done", entry |-> entry]

\* the callback of urls.map / fetchText up to its first await
StartFetch(rev, url) ==
  IF rev = "cheerio" /\ url = <<>> THEN Done(Result(url, FALSE, 400, <<>>))
  ELSE Pending(url, "fetch")

\* fetch() settles: the headers have arrived or the promise is rejected
AfterFetch(rev, url) ==
  LET site == SiteOf(url) IN
    IF site \in {"invalid", "down"} THEN Done(Result(url, FALSE, 0, <<>>))
    ELSE IF rev = "cheerio" /\ site = "missing"
      THEN Done(Result(url, FALSE, 404, <<>>))
    ELSE Pending(url, "text")

\* r.text() settles
AfterText(rev, url) ==
  IF SiteOf(url) = "missing" THEN Done(Result(url, FALSE, 404, PageText))
  ELSE IF rev = "cheerio" THEN Done(Result(url, TRUE, 0, PageText))
  ELSE Done(Result(url, TRUE, 200, PageText))

\* the timer is armed: part_000 clears it when fetch() settles, fetchText
\* in its finally block
TimerArmed(rev, f) ==
  f.at = "fetch" \/ (f.at = "text" /\ rev # "cheerio")

NoScrape(rev) ==
  [rev |-> rev, phase |-> "idle", urls |-> <<>>, given |-> FALSE,
   fetches |-> <<>>, status |-> 0, results |-> <<>>]

ScrapeUrls ==
  {<<u>> : u \in DOMAIN Sites} \cup {<<"not a url">>, <<>>}

\* the bodies of the requests: no urls, or an array of up to MaxUrls URLs
ScrapeBatches == UNION {[1..n -> ScrapeUrls] : n \in 0..MaxUrls}

InitScrape ==
  /\ impl = "sync"
  /\ store = DocBlob(<<>>)
  /\ seed = Blob("absent", <<>>)
  /\ last = NoRequest
  /\ hist = [fromEmpty |-> FALSE, headers |-> <<>>]
  /\ scn = NoScenario
  /\ body = NoBody
  /\ nget = 0
  /\ ui = UiIdle
  /\ race = RaceIdle
  /\ net \in {NoScrape(rev) : rev \in {"cheerio", "filter", "set"}}

ScrapeFrame == UNCHANGED <<impl, store, seed, last, hist, scn, body, nget, ui, race>>

\* app.post('/api/scrape') up to Promise.all, or to its 400
PostScrape ==
  /\ net.phase = "idle"
  /\ \E urls \in ScrapeBatches :
       net' = IF urls = <<>> /\ net.rev # "set"
              THEN [net EXCEPT !.phase = "sent", !.status = 400, !.given = TRUE]
              ELSE [net EXCEPT !.phase = "fetching", !.urls = urls, !.given = TRUE,
                      !.fetches = [i \in 1..Len(Targets(net.rev, urls)) |->
                                     StartFetch(net.rev, Targets(net.rev, urls)[i])]]
  /\ ScrapeFrame

\* the site answers, or fetch() rejects
FetchSettles ==
  /\ net.phase = "fetching"
  /\ \E i \in 1..Len(net.fetches) :
       /\ net.fetches[i].at = "fetch"
       /\ SiteOf(net.fetches[i].entry.url) # "slow"
       /\ net' = [net EXCEPT !.fetches[i] = AfterFetch(net.rev, net.fetches[i].entry.url)]
  /\ ScrapeFrame

\* the body has been read
TextSettles ==
  /\ net.phase = "fetching"
  /\ \E i \in 1..Len(net.fetches) :
       /\ net.fetches[i].at = "text"
       /\ SiteOf(net.fetches[i].entry.url) # "stall"
       /\ net' = [net EXCEPT !.fetches[i] = AfterText(net.rev, net.fetches[i].entry.url)]
  /\ ScrapeFrame

\* the timer of a fetch fires: controller.abort() rejects what is awaited
Timeout ==
  /\ net.phase = "fetching"
  /\ \E i \in 1..Len(net.fetches) :
       /\ TimerArmed(net.rev, net.fetches[i])
       /\ SiteOf(net.fetches[i].entry.url) \in {"slow", "stall"}
       /\ net' = [net EXCEPT !.fetches[i] =
                    Done(Result(net.fetches[i].entry.url, FALSE, 0, <<>>))]
  /\ ScrapeFrame

\* Promise.all is fulfilled: res.json({ results })
SendResults ==
  /\ net.phase = "fetching"
  /\ \A i \in 1..Len(net.fetches) : net.fetches[i].at = "done"
  /\ net' = [net EXCEPT !.phase = "sent", !.status = 200,
                !.results = [i \in 1..Len(net.fetches) |-> net.fetches[i].entry]]
  /\ ScrapeFrame

NextScrape == PostScrape \/ FetchSettles \/ TextSettles \/ Timeout \/ SendResults

SpecScrape == InitScrape /\ [][NextScrape]_vars

\* C20: the response to a batch of URLs is a 200 with one entry per
\* submitted URL, in order; the entry of a URL is ok exactly when its site
\* answers 200, whatever the other URLs of the batch are.
C20_ScrapeIsolation ==
  (net.phase = "sent" /\ net.urls # <<>>) =>
    /\ net.status = 200
    /\ Len(net.results) = Len(net.urls)
    /\ \A i \in 1..Len(net.urls) :
         /\ net.results[i].url = Trim(net.urls[i])
         /\ net.results[i].ok = (SiteOf(net.urls[i]) = "ok")

\* the event loop runs every callback that is ready and every timer that is
\* due; when a request arrives is up to the client
FairScrape ==
  /\ SpecScrape
  /\ WF_vars(FetchSettles) /\ WF_vars(TextSettles)
  /\ WF_vars(Timeout) /\ WF_vars(SendResults)

\* C23: every scrape request that was received is answered, whatever the
\* sites behind its URLs do.
C23_ScrapeCompletes == (net.phase = "fetching") ~> (net.phase = "sent")

(* ------------------- requests in flight on the sync server -------------- *)
(* A handler of part_000 runs from readFileSync to writeFileSync and         *)
(* res.json without an await: the event loop starts the handler of the next  *)
(* request when the one before has returned.                                 *)

\* variant: the response is sent and the file is left as it was
HandlerAKeepsFile(op, id, p, st, sd) ==
  LET r == IF op = "create" THEN CreateA(p, st, sd)
           ELSE IF op = "delete" THEN DeleteA(id, st, sd)
           ELSE UpdateA(id, p, st, sd)
  IN Response(r.status, st, r.ret)

\* the handler of a POST, PUT or DELETE on the file as it is when it starts
HandlerA(op, id, p, st, sd) ==
  IF op = "create" THEN CreateA(p, st, sd)
  ELSE IF op = "delete" THEN DeleteA(id, st, sd)
  ELSE UpdateA(id, p, st, sd)

SerialRequests ==
  {[NoProc EXCEPT !.op = "create", !.p = HeaderOnly(Str(StrB))],
   [NoProc EXCEPT !.op = "create", !.p = HeaderOnly(Str(StrC))],
   [NoProc EXCEPT !.op = "put", !.id = StrA,
                  !.p = [NoTemplate EXCEPT !.sem_category = Str(<<"Email">>)]],
   [NoProc EXCEPT !.op = "put", !.id = StrA, !.p = HeaderOnly(Str(StrB))],
   [NoProc EXCEPT !.op = "delete", !.id = StrA],
   [NoProc EXCEPT !.op = "delete", !.id = StrB]}

InitSerial ==
  /\ impl = "sync"
  /\ store \in {Blob("absent", <<>>), DocBlob(DocOne), DocBlob(DocPair)}
  /\ seed \in {Blob("absent", <<>>), DocBlob(DocOne)}
  /\ last = NoRequest
  /\ hist = [fromEmpty |-> FALSE, headers |-> <<>>]
  /\ scn = NoScenario
  /\ body = NoBody
  /\ nget = 0
  /\ ui = UiIdle
  /\ net = NetIdle
  /\ race = [procs |-> [k \in 1..MaxInFlight |-> NoProc], saved |-> <<>>,
             first |-> store]

\* a request has arrived and waits for the event loop
ArriveSync ==
  /\ \E k \in 1..MaxInFlight : \E req \in SerialRequests :
       /\ race.procs[k].pc = "idle"
       /\ race' = [race EXCEPT !.procs[k] = [req EXCEPT !.pc = "queued"]]
  /\ UNCHANGED store
  /\ RaceFrame

\* the event loop runs the handler of a waiting request to its response
HandleSync ==
  /\ \E k \in 1..MaxInFlight :
       LET me == race.procs[k]
           r  == HandlerA(me.op, me.id, me.p, store, seed)
       IN /\ me.pc = "queued"
          /\ store' = r.store
          /\ race' = [race EXCEPT !.procs[k] = [me EXCEPT !.pc = "done", !.snap = store,
                                                          !.status = r.status],
                                  !.saved = Append(@, k)]
  /\ RaceFrame

NextSerial == ArriveSync \/ HandleSync

SpecSerial == InitSerial /\ [][NextSerial]_vars

\* the response and the file when request k runs alone on the file st
AloneA(k, st) ==
  LET me == race.procs[k] IN
    IF me.op = "create" THEN CreateA(me.p, st, seed)
    ELSE IF me.op = "delete" THEN DeleteA(me.id, st, seed)
    ELSE UpdateA(me.id, me.p, st, seed)

RECURSIVE SerialRun(_, _)
\* the requests ks applied one at a time to the file st: the file at the
\* end, when every response is the one that was sent; no file otherwise
SerialRun(st, ks) ==
  IF ks = <<>> THEN {st}
  ELSE LET r == AloneA(Head(ks), st) IN
         IF r.status # race.procs[Head(ks)].status THEN {}
         ELSE SerialRun(r.store, Tail(ks))

Answered == {k \in 1..MaxInFlight : race.procs[k].pc = "done"}

\* the orders in which the answered requests can be lined up
Orders ==
  {o \in [1..Cardinality(Answered) -> Answered] :
     \A i, j \in 1..Cardinality(Answered) : o[i] = o[j] => i = j}

\* C24: on the sync server the file is always what the answered requests,
\* applied one at a time in some order, leave, each with the response it
\* was given.
C24_Serializable ==
  \E o \in Orders : store \in SerialRun(race.first, o)

\* two requests that arrived together were both answered with a success
\* and the file holds the change of both
C24_Witness ==
  /\ Cardinality(Answered) >= 2
  /\ \E k, m \in Answered :
       /\ k # m
       /\ race.procs[k].status \in {200, 201} /\ race.procs[m].status \in {200, 201}
       /\ race.saved = <<k, m>>
       /\ race.procs[m].snap # race.first
       /\ store # race.procs[m].snap
       /\ \A j \in 1..MaxInFlight : race.procs[j].pc # "idle"

(* ---------------------------- empty identifiers ------------------------- *)

\* every template of the document has a title that is a non-empty string
AllNamed(doc) ==
  \A q \in Positions(doc) :
    LET h == TemplateAt(doc, q).sem_header IN h.t = "string" /\ h.s # <<>>

\* C26: a successful Create or Update on a document whose templates all have
\* a non-empty sem_header leaves a document whose templates all have one.
C26_NoEmptyIdentifiers ==
  [][(/\ last'.op \in {"create", "update"} /\ last'.status \in {200, 201}
      /\ AllNamed(Loaded(store, seed, impl)))
       => AllNamed(StoredDoc')]_vars

(* ---------------------------- the Copilot panel ------------------------- *)
(* App renders <Copilot issue={selected} /> without a key: the component    *)
(* lives as long as an issue is selected, and run() goes on after a switch. *)

\* the issues of the list: "a" has a reference, "b" has none
CopilotIssues == {StrA, StrB}

HasReference(id) == id = StrA

NoReply == [kind |-> "none", issue |-> <<>>]

\* run() awaiting scrape or rawChat: the issue of its closure, whether it
\* was started since the last change of issue?.id, whether its component
\* is still mounted
Run(id, pc) == [issue |-> id, pc |-> pc, live |-> TRUE, mounted |-> TRUE]

Panel(id, loading, reply, runs) ==
  [view |-> "copilot", issue |-> id, loading |-> loading, reply |-> reply, runs |-> runs]

InitCopilot ==
  /\ impl = "sync"
  /\ store = DocBlob(<<>>)
  /\ seed = Blob("absent", <<>>)
  /\ last = NoRequest
  /\ hist = [fromEmpty |-> FALSE, headers |-> <<>>]
  /\ scn = NoScenario
  /\ body = NoBody
  /\ nget = 0
  /\ race = RaceIdle
  /\ net = NetIdle
  /\ ui = Panel(<<>>, FALSE, NoReply, <<>>)

\* handleSelect, handlePrev or handleNext puts another issue in the panel:
\* the effect on issue?.id clears reply, question and loading
SwitchIssue ==
  /\ \E id \in CopilotIssues \ {ui.issue} :
       ui' = Panel(id, FALSE, NoReply,
                   [k \in 1..Len(ui.runs) |-> [ui.runs[k] EXCEPT !.live = FALSE]])
  /\ ServerIdle

\* setSelected(null): the panel is unmounted and its state is gone
ClosePanel ==
  /\ ui.issue # <<>>
  /\ ui' = Panel(<<>>, FALSE, NoReply,
                 [k \in 1..Len(ui.runs) |->
                    [ui.runs[k] EXCEPT !.live = FALSE, !.mounted = FALSE]])
  /\ ServerIdle

\* run(): by a button, which is disabled while loading, or by Enter in the
\* input with a question typed
Submit ==
  /\ ui.issue # <<>>
  /\ Len(ui.runs) < MaxRuns
  /\ \E how \in {"button", "enter"} :
       /\ how = "button" => ~ui.loading
       /\ ui' = Panel(ui.issue, TRUE, NoReply,
                      Append(ui.runs, Run(ui.issue, IF HasReference(ui.issue)
                                                    THEN "scrape" ELSE "chat")))
  /\ ServerIdle

\* what a run does to the panel when it ends: setReply, then setLoading(false)
Ended(k, kind) ==
  LET me   == ui.runs[k]
      runs == [ui.runs EXCEPT ![k].pc = "done"]
  IN IF me.mounted THEN Panel(ui.issue, FALSE, [kind |-> kind, issue |-> me.issue], runs)
     ELSE Panel(ui.issue, ui.loading, ui.reply, runs)

\* scrape([issue.reference]) returns and rawChat is sent, or it throws
ScrapeReturns ==
  /\ \E k \in 1..Len(ui.runs) :
       /\ ui.runs[k].pc = "scrape"
       /\ \/ ui' = [ui EXCEPT !.runs[k].pc = "chat"]
          \/ ui' = Ended(k, "error")
  /\ ServerIdle

\* rawChat returns or throws
ChatReturns ==
  /\ \E k \in 1..Len(ui.runs) :
       /\ ui.runs[k].pc = "chat"
       /\ \E kind \in {"answer", "error"} : ui' = Ended(k, kind)
  /\ ServerIdle

NextCopilot == SwitchIssue \/ ClosePanel \/ Submit \/ ScrapeReturns \/ ChatReturns

SpecCopilot == InitCopilot /\ [][NextCopilot]_vars

\* the runs started in the panel since the issue was last changed
LiveRuns == {k \in 1..Len(ui.runs) : ui.runs[k].live}

\* C29: the reply in the panel was produced for the selected issue, and the
\* loading indicator is on exactly while the run started last for the
\* selected issue is in flight.
C29_NoStaleReply ==
  /\ ui.reply.kind # "none" => ui.reply.issue = ui.issue
  /\ ui.loading <=>
        /\ LiveRuns # {}
        /\ ui.runs[CHOOSE k \in LiveRuns : \A m \in LiveRuns : m <= k].pc # "done"

(* ---------------------- selection in the main view ---------------------- *)

\* selected === null, and issues[k] for a k that is no index of the list
NullIssue == Issue(Null, Null, Null, Null, Null, Null, Null)
UndefinedIssue == Issue(Undef, Undef, Undef, Undef, Undef, Undef, Undef)

IsIssue(x) == x \notin {NullIssue, UndefinedIssue}

\* issues of App.tsx: the filter, then the sort
DisplayedIssues(all, filter, sortBy) ==
  StableSort(IF filter = "All" THEN all
             ELSE SelectSeq(all, LAMBDA i : GetSeverityLabel(i.severityScore) = filter),
             sortBy)

\* index of App.tsx counted from 1; 0 for the -1 of findIndex
IndexOf(rows, sel) ==
  IF IsIssue(sel) /\ \E k \in 1..Len(rows) : rows[k].id = sel.id
  THEN CHOOSE k \in 1..Len(rows) :
         rows[k].id = sel.id /\ \A m \in 1..(k - 1) : rows[m].id # sel.id
  ELSE 0

ItemAt(rows, k) == IF k \in 1..Len(rows) THEN rows[k] ELSE UndefinedIssue

\* handlePrev
PrevSelected(rows, sel) ==
  IF IndexOf(rows, sel) > 1 THEN ItemAt(rows, IndexOf(rows, sel) - 1) ELSE sel

\* variant: the next issue is taken without the test on index
NextSelectedUnguarded(rows, sel) == ItemAt(rows, IndexOf(rows, sel) + 1)

\* handleNext
NextSelected(rows, sel) ==
  IF IndexOf(rows, sel) >= 1 /\ IndexOf(rows, sel) < Len(rows)
  THEN ItemAt(rows, IndexOf(rows, sel) + 1) ELSE sel

\* the state of App and the handler that ran last
AppState(view, all, sel, open, filter, sortBy, act) ==
  [view |-> view, issues |-> all, selected |-> sel, open |-> open,
   filter |-> filter, sortBy |-> sortBy, act |-> act]

Rows == DisplayedIssues(ui.issues, ui.filter, ui.sortBy)

SelectScores == {Num(600), Num(610), Num(900), Undef}

InitSelect ==
  /\ impl = "sync"
  /\ store = DocBlob(<<>>)
  /\ seed = Blob("absent", <<>>)
  /\ last = NoRequest
  /\ hist = [fromEmpty |-> FALSE, headers |-> <<>>]
  /\ scn = NoScenario
  /\ body = NoBody
  /\ nget = 0
  /\ race = RaceIdle
  /\ net = NetIdle
  /\ \E n \in 1..MaxScored : \E sc \in [1..n -> SelectScores] :
       ui = AppState("main", [k \in 1..n |-> ScoredIssue(k, sc[k])], NullIssue, FALSE,
                     "All", "Severity", "none")

\* handleSelect: a click on a row of the list
SelectIssue ==
  /\ ui.view = "main"
  /\ \E k \in 1..Len(Rows) :
       ui' = [ui EXCEPT !.selected = Rows[k], !.open = TRUE, !.act = "select"]
  /\ ServerIdle

HandlePrev ==
  /\ ui.view = "main"
  /\ ui' = [ui EXCEPT !.selected = PrevSelected(Rows, ui.selected), !.act = "prev"]
  /\ ServerIdle

HandleNext ==
  /\ ui.view = "main"
  /\ ui' = [ui EXCEPT !.selected = NextSelected(Rows, ui.selected), !.act = "next"]
  /\ ServerIdle

\* onClose of RightDrawer: the button, the backdrop or Escape
CloseDrawer ==
  /\ ui.view = "main"
  /\ ui.open
  /\ ui' = [ui EXCEPT !.open = FALSE, !.act = "close"]
  /\ ServerIdle

\* onClick of a Pill
PillClick ==
  /\ ui.view = "main"
  /\ \E f \in {"All", "Critical", "Important", "Moderate"} :
       ui' = [ui EXCEPT !.filter = f, !.open = FALSE, !.selected = NullIssue,
                        !.act = "filter"]
  /\ ServerIdle

\* onChange of the sort select
SortChange ==
  /\ ui.view = "main"
  /\ \E o \in {"Severity", "A-Z"} : ui' = [ui EXCEPT !.sortBy = o, !.act = "sort"]
  /\ ServerIdle

\* the Settings button
SettingsClick ==
  /\ ui.view = "main"
  /\ ui' = [ui EXCEPT !.view = "settings", !.open = FALSE, !.selected = NullIssue,
                      !.act = "settings"]
  /\ ServerIdle

\* onBack of Settings
OnBack ==
  /\ ui.view = "settings"
  /\ ui' = [ui EXCEPT !.view = "main", !.open = FALSE, !.selected = NullIssue,
                      !.act = "back"]
  /\ ServerIdle

NextSelect ==
  SelectIssue \/ HandlePrev \/ HandleNext \/ CloseDrawer \/ PillClick
    \/ SortChange \/ SettingsClick \/ OnBack

SpecSelect == InitSelect /\ [][NextSelect]_vars

\* C30: an open drawer has a selected issue; a selected issue is a row of
\* the displayed list, so prev and next leave it between the first and the
\* last row.
C30_SelectionConsistent ==
  /\ ui.open => IsIssue(ui.selected)
  /\ ui.selected # NullIssue =>
       /\ \E k \in 1..Len(Rows) : Rows[k] = ui.selected
       /\ IndexOf(Rows, ui.selected) \in 1..Len(Rows)

\* next was pressed on the last of two rows of a filtered list sorted by
\* name: the selection is still the last row and the drawer is open
C30_Witness ==
  /\ ui.act = "next" /\ ui.open
  /\ ui.filter # "All" /\ ui.sortBy = "A-Z"
  /\ Len(Rows) >= 2
  /\ ui.selected = Rows[Len(Rows)]

(* ------------------------------ load and GET ---------------------------- *)

EmptyStore(st) == st.kind # "doc" \/ Len(st.sections) = 0

ValidSeed(sd) == sd.kind = "doc" /\ Len(sd.sections) >= 1

C12_LoadIdempotent ==
  [][(last'.op = "get" /\ nget' >= 2) => (body' = body /\ store' = store)]_vars

\* a second load in a row over a seeded data file
C12_Witness ==
  /\ last.op = "get" /\ impl = "sync" /\ nget = 2
  /\ ValidSeed(seed) /\ store = DocBlob(seed.sections)

\* C13: the body of every GET /api/issues answered 200 has an array sections.
C13_WellFormedReads ==
  (last.op = "get" /\ last.status = 200) => body.kind = "doc"

(* --------------------------- Create with fields -------------------------- *)

\* the fields of a POST body besides the title: nothing; everything given
\* in its stored shape; scalars; a text that is no number; nulls
CreateProfiles ==
  {NoTemplate,
   FieldsGiven,
   FieldsScalar,
   [NoTemplate EXCEPT !.severity_score = Str(<<"abc">>)],
   [NoTemplate EXCEPT !.severity_score = Null, !.sem_recommendations = Null,
                      !.sem_resolution_instruction = Null],
   [NoTemplate EXCEPT !.severity_score = Num(0), !.sem_long_description = Str(<<"e">>)]}

CreateFieldPayloads ==
  {[f EXCEPT !.sem_header = Str(h)] : f \in CreateProfiles, h \in {StrB, StrC}}

InitCreate ==
  /\ impl = "sync"
  /\ store \in {Blob("absent", <<>>), DocBlob(<<>>), DocBlob(DocOne), DocBlob(DocNoSub)}
  /\ seed = Blob("absent", <<>>)
  /\ last = NoRequest
  /\ hist = [fromEmpty |-> FALSE, headers |-> <<>>]
  /\ scn = NoScenario
  /\ Idle

\* POST /api/issues with a body that carries the other fields
CreateWithFields ==
  \E p \in CreateFieldPayloads :
    LET r == CreateA(p, store, seed) IN
      /\ r.status = 201 => CountTemplates(ReadJsonA(store, seed).doc) < MaxTemplates
      /\ Step("create", <<>>, p, r)

NextCreate == CreateWithFields

SpecCreate == InitCreate /\ [][NextCreate]_vars

\* the template a successful Create has just pushed
Created(st) ==
  LET fts == st.sections[1].sub_sections[1].finding_templates IN fts[Len(fts)]

\* Number(v) is NaN
Unparseable(v) == v.t \notin {"undefined", "null"} /\ ToNumber(v).t = "nan"

\* C21: the template stored by a successful Create has the default category
\* when none was supplied, a number as severity_score (0 when the payload
\* value is absent or is no number), '' as description when absent, an array
\* of recommendations ([] when the payload value is no array) and an array of
\* instructions (a scalar wrapped, [] when absent).
C21_CreateDefaults ==
  [][(last'.op = "create" /\ last'.status = 201) =>
       LET p == last'.p
           t == Created(store')
       IN /\ p.sem_category = Undef => t.sem_category = Str(DefaultCategory)
          /\ t.severity_score.t = "number"
          /\ (p.severity_score = Undef \/ Unparseable(p.severity_score))
                => t.severity_score = Num(0)
          /\ p.sem_long_description = Undef => t.sem_long_description = Str(<<>>)
          /\ t.sem_recommendations.t = "array"
          /\ p.sem_recommendations.t # "array" => t.sem_recommendations = Arr(<<>>)
          /\ t.sem_resolution_instruction.t = "array"
          /\ p.sem_resolution_instruction = Undef
                => t.sem_resolution_instruction = Arr(<<>>)
          /\ (p.sem_resolution_instruction.t = "string"
                /\ p.sem_resolution_instruction.s # <<>>)
                => t.sem_resolution_instruction = Arr(<<p.sem_resolution_instruction.s>>)]_vars

(* ------------------------ Delete and later reads ------------------------- *)

\* "a" in two sub-sections, next to other templates
DocSplit ==
  <<Section(<<"S1">>,
      <<SubSection(<<"SS1">>, <<OldTemplate(StrA), OldTemplate(StrB)>>),
        SubSection(<<"SS2">>, <<OldTemplate(StrA), OldTemplate(StrC)>>)>>)>>

\* "a" twice in the first sub-section and once in a later section
DocTwice ==
  <<Section(<<"S1">>, <<SubSection(<<"SS1">>, <<OldTemplate(StrA), OldTemplate(StrA)>>)>>),
    Section(<<"S2">>, <<SubSection(<<"SS2">>, <<OldTemplate(StrB), OldTemplate(StrA)>>)>>)>>

InitDelete ==
  /\ impl \in {"sync", "async"}
  /\ store \in {DocBlob(d) : d \in {DocOne, DocTwo, DocPair, DocSplit, DocTwice}}
  /\ seed \in IF impl = "sync" THEN {Blob("absent", <<>>), DocBlob(DocOne)}
                               ELSE {Blob("absent", <<>>)}
  /\ last = NoRequest
  /\ hist = [fromEmpty |-> FALSE, headers |-> <<>>]
  /\ scn = NoScenario
  /\ Idle

NextDelete == DeleteSync \/ DeleteAsync \/ GetSync \/ GetAsync

SpecDelete == InitDelete /\ [][NextDelete]_vars

\* the templates of a document, in document order
AllTemplates(doc) ==
  LET qs == PosSeq(Positions(doc)) IN [k \in 1..Len(qs) |-> TemplateAt(doc, qs[k])]

\* the document without the templates titled id of the first sub-section
\* that holds one
WithoutFirstMatch(doc, id) ==
  LET q == FirstPos(SubsWith(doc, id)) IN
    [doc EXCEPT ![q[1]].sub_sections[q[2]].finding_templates = FilterSeq(@, id)]

\* C22: a successful Delete(id) removes the templates titled id from the
\* first sub-section that holds one and from no other; every other template
\* stays, in the same relative order.
C22_DeleteScope ==
  [][(last'.op = "delete" /\ last'.status = 200) =>
       LET before == Loaded(store, seed, impl) IN
         /\ SubsWith(before, last'.id) # {}
         /\ AllTemplates(StoredDoc') = AllTemplates(WithoutFirstMatch(before, last'.id))]_vars

\* C25: a GET that follows a successful Delete(id) lists no template titled id.
C25_DeleteDurable ==
  [][(/\ last.op = "delete" /\ last.status = 200
      /\ last'.op = "get" /\ last'.status = 200 /\ body'.kind = "doc") =>
       Str(last.id) \notin AllHeaders(body'.sections)]_vars

====
